---- MODULE Spec2Model ----
(***************************************************************************)
(* A2A messaging and coordination layer of mcp-yfinance-agent:             *)
(*   a2a_protocol.py     envelope and protocol factory                     *)
(*   a2a_adapter.py      stream transport, adapter, pending-request table  *)
(*   a2a_integration.py  integration manager, collaborative analysis       *)
(*                                                                         *)
(* Time is the wall clock in whole seconds.  Optional values are tuples:   *)
(* None is <<>> and Some(x) is <<x>>.  A payload (a Python dict) is a      *)
(* function from the set of its keys.                                      *)
(***************************************************************************)
EXTENDS Integers, Sequences, FiniteSets, TLC

VARIABLES
    now,               \* datetime.now(), in whole seconds
    nextId,            \* the next fresh uuid4
    proto,             \* the last call made on the protocol factory
    listening,         \* adapters whose transport runs a listener (transport.server)
    conns,             \* per adapter: the peer connections that are open
    websocket,         \* per adapter: transport.websocket (a connection, open or not)
    pending_requests,  \* per adapter: request id -> pending record
    call,              \* per request id: the request_* coroutine that made it
    wire,              \* frames written to a connection, in order
    mgr,               \* the integration manager and its running call
    capabilities,      \* per adapter: adapter.capabilities (none until registered)
    registered_agents, \* per adapter: sender id -> capability payload
    reg,               \* the connect_to_registry call and what it did
    handling           \* per connection: the envelope whose handler is suspended

vars == <<now, nextId, proto, listening, conns, websocket, pending_requests,
          call, wire, mgr, capabilities, registered_agents, reg, handling>>

---------------------------------------------------------------------------
(* Bounds of the model *)

\* ids (uuid4 values) of the envelopes handed to the protocol factory
MaxId == 2
\* request_* calls made on the adapter by its callers
MaxCalls == 1
\* the clock value after which time advances only while some wait is running
MaxClock == 1

---------------------------------------------------------------------------
(* Values *)

None == <<>>
Some(x) == <<x>>
IsSome(o) == Len(o) = 1
TheVal(o) == o[1]

\* no correlation id (Python None)
NoId == 0
Ids == 1..MaxId

\* Python values held in a payload whose type matters to json.dumps
PyStr(s) == [py |-> "str", s |-> s]
PyNum(n) == [py |-> "number", n |-> n]
PyNone == [py |-> "None"]
PyList(items) == [py |-> "list", items |-> items]
PyDict(d) == [py |-> "dict", d |-> d]
\* a member of an Enum class
PyEnum(cls, member) == [py |-> "enum", cls |-> cls, member |-> member]

\* MessageType values
REQUEST == "request"
RESPONSE == "response"
ERROR == "error"
HEARTBEAT == "heartbeat"
REGISTRATION == "registration"
CAPABILITY_QUERY == "capability_query"
CAPABILITY_RESPONSE == "capability_response"
MessageType == {REQUEST, RESPONSE, ERROR, HEARTBEAT, REGISTRATION,
                CAPABILITY_QUERY, CAPABILITY_RESPONSE}

\* Priority values
LOW == 1
NORMAL == 2
HIGH == 3
CRITICAL == 4
Priority == {LOW, NORMAL, HIGH, CRITICAL}

\* the three adapters of the integration manager, by name, and their agent ids
Adapters == {"investment", "risk", "portfolio"}
AgentId(a) == CASE a = "investment" -> "investment_agent_001"
                [] a = "risk" -> "risk_agent_001"
                [] a = "portfolio" -> "portfolio_agent_001"

EmptyDict == [k \in {} |-> 0]
HasKey(d, k) == k \in DOMAIN d

---------------------------------------------------------------------------
(* a2a_protocol.py: the envelope and the protocol factory *)

\* A2AMessage
A2AMessage(message_id, sender_id, receiver_id, message_type, priority, timestamp, payload, correlation_id) ==
    [message_id |-> message_id, sender_id |-> sender_id,
     receiver_id |-> receiver_id, message_type |-> message_type,
     priority |-> priority, timestamp |-> timestamp, payload |-> payload,
     correlation_id |-> correlation_id, expires_at |-> None]

\* A2AProtocol.create_message; self is the factory's agent_id, id the uuid4
\* drawn and ts datetime.now()
create_message(self, id, ts, receiver_id, message_type, payload, priority, correlation_id) ==
    A2AMessage(id, self, receiver_id, message_type, priority, ts, payload,
               correlation_id)

\* a reply that answers nothing (a plausible slip: the correlation id is dropped)
create_response_uncorrelated(self, id, ts, original_message, response_data) ==
    A2AMessage(id, self, original_message.sender_id, RESPONSE,
               original_message.priority, ts, response_data, NoId)

\* A2AProtocol.create_response
create_response(self, id, ts, original_message, response_data) ==
    A2AMessage(id, self, original_message.sender_id, RESPONSE,
               original_message.priority, ts, response_data,
               original_message.message_id)

\* A2AProtocol.create_error_response
create_error_response(self, id, ts, original_message, error_message, error_code) ==
    A2AMessage(id, self, original_message.sender_id, ERROR, HIGH, ts,
               [error_code |-> error_code, error_message |-> error_message,
                original_request |-> original_message.payload],
               original_message.message_id)

\* StockAnalysisRequest, PortfolioAnalysisRequest and RiskEventRequest as the
\* payload asdict() gives (the Optional fields left at None are kept as keys)
StockPayload(ticker, analysis_type, timeframe) ==
    [ticker |-> ticker, analysis_type |-> analysis_type,
     timeframe |-> timeframe, user_profile |-> None,
     additional_context |-> None]
PortfolioPayload(user_id, has_positions) ==
    [user_id |-> user_id, portfolio_data |-> has_positions,
     analysis_goals |-> <<"risk_assessment", "optimization">>,
     constraints |-> None]
RiskPayload(ticker) ==
    [ticker |-> ticker,
     event_sources |-> <<"news", "financial_reports", "market_data">>,
     time_horizon |-> "1d", severity_threshold |-> "medium"]

\* A2AProtocol.create_stock_analysis_request
create_stock_analysis_request(self, id, ts, receiver_id, ticker, analysis_type, timeframe) ==
    create_message(self, id, ts, receiver_id, REQUEST,
                   StockPayload(ticker, analysis_type, timeframe), HIGH, NoId)

\* A2AProtocol.create_portfolio_analysis_request
create_portfolio_analysis_request(self, id, ts, receiver_id, user_id, portfolio_data) ==
    create_message(self, id, ts, receiver_id, REQUEST,
                   PortfolioPayload(user_id, portfolio_data), HIGH, NoId)

\* A2AProtocol.create_risk_analysis_request
create_risk_analysis_request(self, id, ts, receiver_id, ticker) ==
    create_message(self, id, ts, receiver_id, REQUEST, RiskPayload(ticker),
                   HIGH, NoId)

---------------------------------------------------------------------------
(* Inputs of the protocol factory *)

\* sender and receiver ids an envelope may carry
PartyIds == {"investment_agent_001", "external_agent"}
\* payloads an envelope handed to the factory may carry
InputPayloads == {EmptyDict, [error |-> "test_error"], RiskPayload("AAPL")}
\* result payloads a reply may carry
ReplyData == {EmptyDict, [overall_score |-> 80]}
ErrorCodes == {"UNKNOWN_ERROR", "TEST_ERROR"}
ErrorTexts == {"Test error"}

\* every envelope the factory may be asked to answer
InputEnvelopes ==
    {A2AMessage(i, s, r, t, p, 0, d, c) :
        i \in Ids, s \in PartyIds, r \in PartyIds, t \in MessageType,
        p \in Priority, d \in InputPayloads, c \in {NoId} \cup Ids}

NoCall == [op |-> "none"]

\* the factory is handed the envelope r to answer
ProtoInput(r) == [op |-> "input", orig |-> r]

\* a call of create_response on the factory of agent self
ProtoCreateResponse ==
    /\ proto.op = "input"
    /\ \E self \in PartyIds, data \in ReplyData :
          proto' = [op |-> "create_response", self |-> self,
                    orig |-> proto.orig, data |-> data,
                    made |-> create_response(self, nextId, now, proto.orig,
                                             data)]
    /\ nextId' = nextId + 1
    /\ UNCHANGED <<now, listening, conns, websocket, pending_requests, call,
                   wire, mgr,
                   capabilities, registered_agents, reg,
                   handling>>

\* a call of create_error_response on the factory of agent self
ProtoCreateErrorResponse ==
    /\ proto.op = "input"
    /\ \E self \in PartyIds, text \in ErrorTexts, code \in ErrorCodes :
          proto' = [op |-> "create_error_response", self |-> self,
                    orig |-> proto.orig, text |-> text, code |-> code,
                    made |-> create_error_response(self, nextId, now,
                                                   proto.orig, text, code)]
    /\ nextId' = nextId + 1
    /\ UNCHANGED <<now, listening, conns, websocket, pending_requests, call,
                   wire, mgr,
                   capabilities, registered_agents, reg,
                   handling>>

---------------------------------------------------------------------------
(* a2a_adapter.py: WebSocketTransport *)

\* external agents that connect to an adapter's listener
Peers == {"P1", "P2"}

\* a connection, named by its two ends; the adapter at the server end runs
\* handle_client for it
Connection(client, server) == [client |-> client, server |-> server]
AllConns == {Connection(c, s) : c \in Peers \cup Adapters, s \in Adapters}
NoConn == Connection("none", "none")

\* the frames a connection carries: up to the server end, down to the client end
NoFrames == [c \in AllConns |-> [up |-> <<>>, down |-> <<>>]]

\* no handler is suspended: the loop of every handle_client is at its
\* "async for"
NoHandlers == [c \in AllConns |-> None]

\* the frame WebSocketTransport.send_message writes for a message
Frame(message) == [prefix |-> message.sender_id, body |-> message]

\* "self.websocket and not self.websocket.closed"
SocketOpen(a) == websocket[a] # NoConn /\ websocket[a] \in conns

\* the wire w after adapter a wrote a frame for message on its websocket
WrittenOn(w, a, message) ==
    LET c == websocket[a]
        dir == IF c.server = a THEN "down" ELSE "up"
    IN [w EXCEPT ![c][dir] = Append(@, Frame(message))]

Written(a, message) == WrittenOn(wire, a, message)

\* WebSocketTransport.start_server: the listener of adapter a is bound
StartServer(a) ==
    /\ a \notin listening
    /\ listening' = listening \cup {a}
    /\ UNCHANGED <<now, nextId, proto, conns, websocket, pending_requests,
                   call, wire, mgr,
                   capabilities, registered_agents, reg,
                   handling>>

\* handle_client, on accepting a connection: self.websocket = websocket
Accept(a, c) ==
    /\ a \in listening
    /\ c \in AllConns /\ c.server = a /\ c.client # a
    /\ c \notin conns
    /\ wire[c] = NoFrames[c]
    /\ conns' = conns \cup {c}
    /\ websocket' = [websocket EXCEPT ![a] = c]
    /\ UNCHANGED <<now, nextId, proto, listening, pending_requests, call,
                   wire, mgr,
                   capabilities, registered_agents, reg,
                   handling>>

\* an external peer connects to the listener of adapter a
PeerConnect(p, a) == Accept(a, Connection(p, a))

\* an external peer closes its connection; transport.websocket keeps naming it
PeerClose(p, a) ==
    /\ Connection(p, a) \in conns
    /\ conns' = conns \ {Connection(p, a)}
    /\ UNCHANGED <<now, nextId, proto, listening, websocket, pending_requests,
                   call, wire, mgr,
                   capabilities, registered_agents, reg,
                   handling>>

---------------------------------------------------------------------------
(* a2a_adapter.py: A2AAdapter, the pending table and the request_* calls *)

\* timeout=30 of the three request_* calls
WaitTimeout == 30
\* timedelta.seconds is the seconds within the day, not the total
DaySeconds == 86400
\* the age beyond which cleanup_expired_requests removes a record
ExpirySeconds == 300

\* (t2 - t1).seconds for datetimes t1, t2 in whole seconds
Seconds(t1, t2) == (t2 - t1) % DaySeconds

NoTime == -1
RequestKinds == {"stock_analysis", "portfolio_analysis", "risk_analysis"}

\* the request_* method each specialised adapter's manager branch calls
KindOf(a) == CASE a = "investment" -> "stock_analysis"
               [] a = "risk" -> "risk_analysis"
               [] a = "portfolio" -> "portfolio_analysis"

\* the Capability Descriptor as asdict(capabilities) gives it: the role is
\* left a member of AgentRole
RoleOf(a) == CASE a = "investment" -> "INVESTMENT_ANALYST"
               [] a = "risk" -> "RISK_ASSESSOR"
               [] a = "portfolio" -> "PORTFOLIO_MANAGER"
Descriptor(a) ==
    [role |-> PyEnum("AgentRole", RoleOf(a)),
     capabilities |-> PyList(<<PyStr(KindOf(a))>>),
     supported_tickers |-> PyList(<<PyStr("AAPL"), PyStr("TSLA")>>),
     supported_timeframes |-> PyList(<<PyStr("1d"), PyStr("1w")>>),
     max_concurrent_requests |-> PyNum(10),
     response_time_avg |-> PyNum(25),
     version |-> PyStr("1.0.0")]

\* adapter.capabilities after construction, and after register_capabilities
NoCapabilities == [a \in Adapters |-> None]

\* no connect_to_registry call was made
NoRegistryCall == [pc |-> "idle"]

\* a pending record as request_* stores it: the keys "response" and "error"
\* are absent (None) until a reply is stored
PendingRecord(request_msg, timestamp, type) ==
    [request |-> request_msg, timestamp |-> timestamp, type |-> type,
     response |-> None, error |-> None]

EmptyTable == [i \in {} |-> 0]

\* the table with key i set to record r / with key i deleted
TableSet(t, i, r) == [j \in DOMAIN t \cup {i} |-> IF j = i THEN r ELSE t[j]]
TableDel(t, i) == [j \in DOMAIN t \ {i} |-> t[j]]

\* the request_* calls made so far, by the id of their request
Calls == DOMAIN call

\* the request envelope of a request_* call of the given type
RequestFor(self, id, ts, target_agent_id, type, ticker, user_id) ==
    CASE type = "stock_analysis" ->
            create_stock_analysis_request(self, id, ts, target_agent_id,
                                          ticker, "comprehensive", "1m")
      [] type = "portfolio_analysis" ->
            create_portfolio_analysis_request(self, id, ts, target_agent_id,
                                              user_id, TRUE)
      [] type = "risk_analysis" ->
            create_risk_analysis_request(self, id, ts, target_agent_id,
                                         ticker)

RequestMsg(self, id, ts, target_agent_id, type) ==
    RequestFor(self, id, ts, target_agent_id, type, "AAPL", "test_user")

\* request_stock_analysis / request_portfolio_analysis / request_risk_analysis
\* up to the await of transport.send_message: the envelope is made and the
\* pending record stored.  In a call's record, pc is where the coroutine
\* stands ("send": awaiting send_message, "sleep": awaiting asyncio.sleep in
\* _wait_for_response, "done": returned, "cancelled"), and replied is a
\* history flag, set when a reply correlated to the request is dispatched
\* while the call runs; it is not program state.
RequestBegin(a, type, request_msg) ==
    /\ pending_requests' =
          [pending_requests EXCEPT
              ![a] = TableSet(@, request_msg.message_id,
                              PendingRecord(request_msg, now, type))]
    /\ call' = TableSet(call, request_msg.message_id,
                  [pc |-> "send", adapter |-> a, type |-> type,
                   request |-> request_msg, sent |-> "unsent",
                   start_time |-> NoTime, result |-> None,
                   replied |-> FALSE])
    /\ nextId' = nextId + 1

RequestStart(a, type, target_agent_id) ==
    RequestBegin(a, type,
                 RequestMsg(AgentId(a), nextId, now, target_agent_id, type))

\* a request_* call by any caller of the adapter
RequestCall(a, type, target_agent_id) ==
    /\ nextId <= MaxCalls
    /\ now <= MaxClock
    /\ RequestStart(a, type, target_agent_id)
    /\ UNCHANGED <<now, proto, listening, conns, websocket, wire, mgr,
                   capabilities, registered_agents, reg,
                   handling>>

\* "(datetime.now() - start_time).seconds < timeout"
WaitRunning(start_time, current_time) ==
    Seconds(start_time, current_time) < WaitTimeout

\* after the loop of _wait_for_response
\* (a plausible slip: the record is left in the table)
AfterTimeout_keeps(table, i) == table

\* after the loop of _wait_for_response:
\* "if request_id in self.pending_requests: del ..."
AfterTimeout(table, i) == TableDel(table, i)

\* _wait_for_response from one loop test to the next await (or to the
\* return), for the call i whose wait started at start_time: the loop test,
\* the look at the pending record, and after the loop the removal of the
\* record.  No other coroutine runs in between.
LoopTurn(i, start_time) ==
    LET a == call[i].adapter
        table == pending_requests[a]
        entered == [call EXCEPT ![i].sent = "ok", ![i].start_time = start_time]
    IN IF WaitRunning(start_time, now)
       THEN IF i \in DOMAIN table /\ IsSome(table[i].response)
            THEN /\ pending_requests' =
                      [pending_requests EXCEPT ![a] = TableDel(@, i)]
                 /\ call' = [entered EXCEPT ![i].pc = "done",
                                ![i].result = table[i].response]
            ELSE IF i \in DOMAIN table /\ IsSome(table[i].error)
            THEN /\ pending_requests' =
                      [pending_requests EXCEPT ![a] = TableDel(@, i)]
                 /\ call' = [entered EXCEPT ![i].pc = "done",
                                ![i].result = None]
            ELSE /\ call' = [entered EXCEPT ![i].pc = "sleep"]
                 /\ UNCHANGED pending_requests
       ELSE /\ pending_requests' =
                 [pending_requests EXCEPT ![a] = AfterTimeout(@, i)]
            /\ call' = [entered EXCEPT ![i].pc = "done", ![i].result = None]

\* what request_* does when send_message returned False
\* (a plausible slip: it waits for a reply all the same)
AfterSendFailed_waits(i) ==
    /\ call' = [call EXCEPT ![i].sent = "failed", ![i].pc = "sleep",
                            ![i].start_time = now]
    /\ UNCHANGED pending_requests

\* what request_* does when send_message returned False: "return None"
AfterSendFailed(i) ==
    /\ call' = [call EXCEPT ![i].sent = "failed", ![i].pc = "done",
                            ![i].result = None]
    /\ UNCHANGED pending_requests

\* what request_* does when send_message returned True: it enters
\* _wait_for_response, which reads start_time = datetime.now() and runs to
\* its first await
AfterSendOk(i) == LoopTurn(i, now)

\* "if await self.transport.send_message(request_msg)": the frame is written
\* when the websocket is open and websocket.send does not raise
SendMessage(i, raises) ==
    /\ i \in Calls /\ call[i].pc = "send"
    /\ LET a == call[i].adapter
       IN IF SocketOpen(a) /\ ~raises
          THEN /\ wire' = Written(a, call[i].request)
               /\ AfterSendOk(i)
          ELSE /\ wire' = wire
               /\ AfterSendFailed(i)
    /\ UNCHANGED <<now, nextId, proto, listening, conns, websocket, mgr,
                   capabilities, registered_agents, reg,
                   handling>>

\* "await asyncio.sleep(0.1)" returns and the loop takes its next turn
WaitTurn(i) ==
    /\ i \in Calls /\ call[i].pc = "sleep"
    /\ LoopTurn(i, call[i].start_time)
    /\ UNCHANGED <<now, nextId, proto, listening, conns, websocket, wire, mgr,
                   capabilities, registered_agents, reg,
                   handling>>

\* the wait of call i has not reached its timeout
Waiting(i) ==
    call[i].pc = "sleep" /\ WaitRunning(call[i].start_time, now)

\* the instants of a wait at which the clock is observed: its first second,
\* the last second before the timeout, and the timeout
WaitInstants == {1, WaitTimeout - 1, WaitTimeout}

\* the instants the clock is observed at: every second up to MaxClock, and
\* beyond it the instants of the waits that are running
Instants ==
    1..MaxClock \cup
    {call[i].start_time + k : i \in {j \in Calls : Waiting(j)},
                              k \in WaitInstants}

\* the record of request i holds a reply
ReplyStored(i) ==
    /\ i \in DOMAIN pending_requests[call[i].adapter]
    /\ \/ IsSome(pending_requests[call[i].adapter][i].response)
       \/ IsSome(pending_requests[call[i].adapter][i].error)

\* time passes, up to the instant t.  A send_message that was begun has
\* returned by then; a sleeping wait takes a turn every 0.1 s, so that a
\* reply that is stored or a timeout that is due is seen before the clock
\* moves on.
Tick(t) ==
    /\ t \in Instants /\ t > now
    /\ \A i \in Calls :
          /\ call[i].pc # "send"
          /\ call[i].pc = "sleep" =>
                /\ WaitRunning(call[i].start_time, now)
                /\ t <= call[i].start_time + WaitTimeout
                /\ ~ReplyStored(i)
    /\ now' = t
    /\ UNCHANGED <<nextId, proto, listening, conns, websocket,
                   pending_requests, call, wire, mgr,
                   capabilities, registered_agents, reg,
                   handling>>

---------------------------------------------------------------------------
(* a2a_adapter.py: the listener loop and the message handlers *)

\* the history of the call a reply is correlated to, while the call runs
Noted(a, message) ==
    LET cid == message.correlation_id
    IN IF cid \in Calls /\ call[cid].adapter = a /\ call[cid].pc # "done"
       THEN [call EXCEPT ![cid].replied = TRUE]
       ELSE call

\* _handle_response matching by arrival instead of by id (a plausible slip:
\* the payload is stored in the record of the request made last)
handle_response_latest(table, message) ==
    LET correlation_id == message.correlation_id
        latest == CHOOSE i \in DOMAIN table : \A j \in DOMAIN table : j <= i
    IN IF correlation_id # NoId /\ correlation_id \in DOMAIN table
       THEN [table EXCEPT ![latest].response = Some(message.payload)]
       ELSE table

\* _handle_response without the test "correlation_id in self.pending_requests"
\* (a plausible slip: the payload is stored under any correlation id)
handle_response_unchecked(table, message) ==
    LET correlation_id == message.correlation_id
    IN IF correlation_id = NoId THEN table
       ELSE IF correlation_id \in DOMAIN table
       THEN [table EXCEPT ![correlation_id].response = Some(message.payload)]
       ELSE TableSet(table, correlation_id,
                     [PendingRecord(message, 0, "") EXCEPT
                         !.response = Some(message.payload)])

\* _handle_response: the payload is stored under the key "response"
handle_response(table, message) ==
    LET correlation_id == message.correlation_id
    IN IF correlation_id # NoId /\ correlation_id \in DOMAIN table
       THEN [table EXCEPT ![correlation_id].response = Some(message.payload)]
       ELSE table

\* _handle_error: the payload is stored under the key "error"
handle_error(table, message) ==
    LET correlation_id == message.correlation_id
    IN IF correlation_id # NoId /\ correlation_id \in DOMAIN table
       THEN [table EXCEPT ![correlation_id].error = Some(message.payload)]
       ELSE table

\* the test each specialised Request handler makes on the payload
Accepts(a, payload) ==
    CASE a = "investment" ->
            HasKey(payload, "ticker") /\ HasKey(payload, "analysis_type")
      [] a = "risk" -> HasKey(payload, "ticker")
      [] a = "portfolio" ->
            HasKey(payload, "user_id") /\ HasKey(payload, "portfolio_data")

\* _handle_investment_request / _handle_risk_request /
\* _handle_portfolio_request: the reply made for an accepted request, from
\* what the domain collaborator did (Some(result), or None when it raised)
RequestReply(a, message, outcome) ==
    IF IsSome(outcome)
    THEN create_response(AgentId(a), nextId, now, message, TheVal(outcome))
    ELSE create_error_response(AgentId(a), nextId, now, message,
                               "collaborator failed", "UNKNOWN_ERROR")

\* _handle_registration without the test of the sender (a plausible slip:
\* the adapter's own registration is stored too)
handle_registration_own(a, table, message) ==
    TableSet(table, message.sender_id, message.payload)

\* _handle_registration: the payload is stored under the sender's id, but
\* for the adapter's own registration
handle_registration(a, table, message) ==
    IF message.sender_id # AgentId(a)
    THEN TableSet(table, message.sender_id, message.payload)
    ELSE table

\* the handler registered for the kind of message raises.
\* _handle_capability_query calls asdict once "if self.capabilities" passed,
\* and a2a_adapter.py imports no asdict: NameError
HandlerRaises(a, message) ==
    message.message_type = CAPABILITY_QUERY /\ IsSome(capabilities[a])

\* the Error a router could send that answers nothing (a plausible slip)
HandlerError_uncorrelated(self, id, ts, message) ==
    A2AMessage(id, self, message.sender_id, ERROR, HIGH, ts,
               [error_code |-> "HANDLER_ERROR",
                error_message |-> "name 'asdict' is not defined",
                original_request |-> message.payload], NoId)

\* "except Exception as e" of _handle_message: the Error made of str(e)
HandlerError(self, id, ts, message) ==
    create_error_response(self, id, ts, message,
                          "name 'asdict' is not defined", "HANDLER_ERROR")

\* A2AAdapter._handle_message: the handler registered for the kind runs;
\* outcome is what the domain collaborator does, raises whether
\* websocket.send raises, and w the wire once the frame was read
HandleMessage(a, message, outcome, raises, w) ==
    CASE message.message_type = RESPONSE ->
            /\ pending_requests' = [pending_requests EXCEPT
                                       ![a] = handle_response(@, message)]
            /\ call' = Noted(a, message)
            /\ wire' = w
            /\ UNCHANGED <<nextId, registered_agents>>
      [] message.message_type = ERROR ->
            /\ pending_requests' = [pending_requests EXCEPT
                                       ![a] = handle_error(@, message)]
            /\ call' = Noted(a, message)
            /\ wire' = w
            /\ UNCHANGED <<nextId, registered_agents>>
      [] message.message_type = REQUEST /\ Accepts(a, message.payload) ->
            /\ nextId' = nextId + 1
            /\ wire' = IF SocketOpen(a) /\ ~raises
                       THEN WrittenOn(w, a, RequestReply(a, message, outcome))
                       ELSE w
            /\ UNCHANGED <<pending_requests, call, registered_agents>>
      [] message.message_type = REGISTRATION ->
            /\ registered_agents' =
                  [registered_agents EXCEPT
                      ![a] = handle_registration(a, @, message)]
            /\ wire' = w
            /\ UNCHANGED <<nextId, pending_requests, call>>
      [] HandlerRaises(a, message) ->
            /\ nextId' = nextId + 1
            /\ wire' = IF SocketOpen(a) /\ ~raises
                       THEN WrittenOn(w, a, HandlerError(AgentId(a), nextId,
                                                         now, message))
                       ELSE w
            /\ UNCHANGED <<pending_requests, call, registered_agents>>
      [] OTHER -> /\ wire' = w
                  /\ UNCHANGED <<nextId, pending_requests, call,
                                 registered_agents>>

\* handle_client without the test of receiver_id (a plausible slip: every
\* envelope read is dispatched)
HandleFrame_unfiltered(a, c, frame, outcome, raises, w) ==
    /\ a \in listening /\ c \in conns /\ c.server = a
    /\ HandleMessage(a, frame.body, outcome, raises, w)

\* handle_client, the body of its loop for one frame read from connection c:
\* the envelope is dispatched when it is addressed to this adapter
HandleFrame(a, c, frame, outcome, raises, w) ==
    /\ a \in listening /\ c \in conns /\ c.server = a
    /\ IF frame.body.receiver_id = AgentId(a)
       THEN HandleMessage(a, frame.body, outcome, raises, w)
       ELSE /\ wire' = w
            /\ UNCHANGED <<nextId, pending_requests, call, registered_agents>>

\* the replies an external peer may send: a Response or an Error, to this
\* adapter or to another agent, correlated to any id or to none
ErrorPayload == [error_code |-> "UNKNOWN_ERROR", error_message |-> "failed",
                 original_request |-> EmptyDict]
PeerReplies(p, a) ==
    {A2AMessage(0, p, r, RESPONSE, HIGH, now, d, c) :
        r \in {AgentId(a), "external_agent"}, d \in ReplyData,
        c \in {NoId} \cup 1..(MaxCalls + 1)}
    \cup
    {A2AMessage(0, p, r, ERROR, HIGH, now, ErrorPayload, c) :
        r \in {AgentId(a), "external_agent"},
        c \in {NoId} \cup 1..(MaxCalls + 1)}

\* a frame an external peer sent on its connection reaches handle_client
PeerFrame(p, a) ==
    /\ \E message \in PeerReplies(p, a) :
          HandleFrame(a, Connection(p, a), Frame(message), None, FALSE, wire)
    /\ UNCHANGED <<now, proto, listening, conns, websocket, mgr, capabilities,
                   reg,
                   handling>>

\* what the domain collaborator of a Request handler may do: return a result
\* or raise
Outcomes == {Some(d) : d \in ReplyData} \cup {None}

\* the frame at the head of connection c reaches handle_client of adapter a
ListenFrame(a, c) ==
    /\ c \in AllConns /\ wire[c].up # <<>>
    /\ handling[c] = None
    /\ \E outcome \in Outcomes, raises \in BOOLEAN :
          HandleFrame(a, c, Head(wire[c].up), outcome, raises,
                      [wire EXCEPT ![c].up = Tail(@)])
    /\ UNCHANGED <<now, proto, listening, conns, websocket, mgr, capabilities,
                   reg,
                   handling>>

\* WebSocketTransport.connect of adapter a to the listener of adapter b, when
\* it succeeds: a's websocket is the new connection, and b's handle_client
\* accepts it
Connect(a, b) ==
    /\ a # b /\ b \in listening
    /\ Connection(a, b) \notin conns
    /\ wire[Connection(a, b)] = NoFrames[Connection(a, b)]
    /\ conns' = conns \cup {Connection(a, b)}
    /\ websocket' = [websocket EXCEPT ![a] = Connection(a, b),
                                      ![b] = Connection(a, b)]
    /\ UNCHANGED <<now, nextId, proto, listening, pending_requests, call,
                   wire, mgr,
                   capabilities, registered_agents, reg,
                   handling>>

\* the table without the records cleanup_expired_requests finds expired:
\* "(current_time - pending["timestamp"]).seconds > 300"
Unexpired(table, current_time) ==
    [i \in {j \in DOMAIN table :
                ~(Seconds(table[j].timestamp, current_time) > ExpirySeconds)}
        |-> table[i]]

\* A2AAdapter.cleanup_expired_requests
CleanupExpired(a) ==
    /\ pending_requests' = [pending_requests EXCEPT ![a] = Unexpired(@, now)]
    /\ UNCHANGED <<now, nextId, proto, listening, conns, websocket, call,
                   wire, mgr,
                   capabilities, registered_agents, reg,
                   handling>>

---------------------------------------------------------------------------
(* The integration manager: the aggregation of the branch results.  Scores
   are whole numbers; the integrated score is held in tenths (the weights
   are 0.4 and 0.3), confidence values in tenths (0.8 is 8), and the
   confidence score as the ratio the code divides out. *)

\* the branches, in the order start_collaborative_analysis appends them
BranchOrder == <<"investment", "risk", "portfolio">>

\* "if result:": a result that is not None and not an empty dict
Truthy(result) == IsSome(result) /\ TheVal(result) # EmptyDict

\* the results dict after the branch name ended with result
\* (a plausible slip: a branch without a result is entered all the same)
Collected_all(results, name, result) ==
    TableSet(results, name, IF IsSome(result) THEN TheVal(result) ELSE EmptyDict)

\* the results dict after the branch name ended with result:
\* "if result: results[agent_name] = result"
Collected(results, name, result) ==
    IF Truthy(result) THEN TableSet(results, name, TheVal(result)) ELSE results

\* list(results.keys()): the keys in insertion order
KeysOf(results) == SelectSeq(BranchOrder, LAMBDA n : n \in DOMAIN results)

\* the integrated score, in tenths
IntegratedScore(results) ==
    (IF "investment" \in DOMAIN results
        /\ HasKey(results["investment"], "overall_score")
     THEN results["investment"]["overall_score"] * 4 ELSE 0)
    - (IF "risk" \in DOMAIN results
          /\ HasKey(results["risk"], "overall_risk_score")
       THEN (100 - results["risk"]["overall_risk_score"]) * 3 ELSE 0)
    + (IF "portfolio" \in DOMAIN results
          /\ HasKey(results["portfolio"], "overall_score")
       THEN results["portfolio"]["overall_score"] * 3 ELSE 0)

\* the first recommendation, from the score (in tenths) alone
\* (a plausible slip: HOLD begins at 25)
BasicRecommendation_hold25(score) ==
    IF score >= 700 THEN [action |-> "STRONG_BUY", confidence |-> "HIGH", score |-> score]
    ELSE IF score >= 500 THEN [action |-> "BUY", confidence |-> "MEDIUM", score |-> score]
    ELSE IF score >= 250 THEN [action |-> "HOLD", confidence |-> "MEDIUM", score |-> score]
    ELSE [action |-> "SELL", confidence |-> "HIGH", score |-> score]

\* the first recommendation, from the score (in tenths) alone
BasicRecommendation(score) ==
    IF score >= 700 THEN [action |-> "STRONG_BUY", confidence |-> "HIGH", score |-> score]
    ELSE IF score >= 500 THEN [action |-> "BUY", confidence |-> "MEDIUM", score |-> score]
    ELSE IF score >= 300 THEN [action |-> "HOLD", confidence |-> "MEDIUM", score |-> score]
    ELSE [action |-> "SELL", confidence |-> "HIGH", score |-> score]

\* the recommendation added for a high risk level
RiskRecommendation(risk_data) ==
    IF risk_data # EmptyDict /\ HasKey(risk_data, "risk_level")
       /\ risk_data["risk_level"] \in {"high", "critical"}
    THEN <<[action |-> "REDUCE_POSITION", confidence |-> "HIGH"]>>
    ELSE <<>>

\* _generate_integrated_recommendations (the reasoning texts are left out;
\* the entries taken over from investment_data["recommendations"] are none,
\* as no payload of the model carries that key)
generate_integrated_recommendations(score, risk_data, investment_data) ==
    <<BasicRecommendation(score)>> \o RiskRecommendation(risk_data)

\* a ratio n/d, as the code's float division leaves it
Ratio(n, d) == [num |-> n, den |-> d]

\* the value, in tenths, of a confidence given as text: the lower-cased
\* text is searched for "high", then "medium", then "low"
TextConfidence(text) ==
    CASE text \in {"HIGH", "high", "very high"} -> 8
      [] text \in {"MEDIUM", "medium"} -> 6
      [] text \in {"LOW", "low"} -> 4
      [] OTHER -> 0

\* the agents of results that carry a confidence signal
Signalling(results) ==
    {n \in DOMAIN results : HasKey(results[n], "confidence_score")
                            \/ HasKey(results[n], "confidence")}

\* the confidence, in tenths, agent n reports
SignalOf(results, n) ==
    IF HasKey(results[n], "confidence_score")
    THEN results[n]["confidence_score"]
    ELSE TextConfidence(results[n]["confidence"])

RECURSIVE SumSignals(_, _)
SumSignals(results, agents) ==
    IF agents = {} THEN 0
    ELSE LET n == CHOOSE m \in agents : TRUE
         IN SignalOf(results, n) + SumSignals(results, agents \ {n})

\* _calculate_confidence_score
calculate_confidence_score(results) ==
    IF DOMAIN results = {} THEN Ratio(0, 1)
    ELSE IF Cardinality(Signalling(results)) > 0
    THEN Ratio(SumSignals(results, Signalling(results)),
               10 * Cardinality(Signalling(results)))
    ELSE Ratio(5, 10)

\* results.get(name, {})
DataOf(results, name) ==
    IF name \in DOMAIN results THEN results[name] ELSE EmptyDict

\* _integrate_analysis_results, at time ts
integrate_analysis_results(ticker, results, ts) ==
    [ticker |-> ticker,
     timestamp |-> ts,
     analysis_type |-> "collaborative",
     agents_used |-> KeysOf(results),
     integrated_score |-> IntegratedScore(results),
     recommendations |->
        generate_integrated_recommendations(IntegratedScore(results),
            DataOf(results, "risk"), DataOf(results, "investment")),
     risk_assessment |-> DataOf(results, "risk"),
     investment_analysis |-> DataOf(results, "investment"),
     portfolio_impact |-> DataOf(results, "portfolio"),
     confidence_score |-> calculate_confidence_score(results)]

---------------------------------------------------------------------------
(* The integration manager: initialize, start_collaborative_analysis and
   handle_external_request.  In the manager's record, pc is where the
   running call stands ("idle": no call runs; "init": initialize awaits
   start_server of the adapter at index server; "collect": the loop of
   start_collaborative_analysis awaits wait_for on its current task), entry
   is the call that runs, tasks the branches of the run and ids the request
   ids of those already begun, started the time wait_for was called on the
   current one, and outcome what the last call gave its caller. *)

MaxRuns == 1

Tickers == {"AAPL", "TSLA"}

\* get_user_profile(user_id): a stored profile, none, or the store raises
Profiles == {"present", "absent", "raises"}

NoOutcome == [kind |-> "none", entry |-> "none", value |-> EmptyDict]

\* no request was handed to handle_external_request
NoRequest == [type |-> "", ticker |-> "", user_id |-> None]

NoManager ==
    [pc |-> "idle", initialized |-> FALSE, adapters |-> {}, request |-> NoRequest,
     entry |-> "none", server |-> 0, ticker |-> "", profile |-> "absent",
     tasks |-> <<>>, ids |-> <<>>, started |-> NoTime,
     results |-> EmptyTable, outcome |-> NoOutcome, calls |-> 0,
     shut |-> FALSE, cycled |-> FALSE]

\* {"error": str(e)}
ErrorMap(text) == [error |-> text]

\* the manager after its running call returned value to the caller
Returned(m, value) ==
    [m EXCEPT !.pc = "idle", !.entry = "none",
              !.outcome = [kind |-> IF HasKey(value, "error")
                                    THEN "error" ELSE "result",
                           entry |-> m.entry, value |-> value]]

\* the manager after its running call raised to the caller
Raised(m) ==
    [m EXCEPT !.pc = "idle", !.entry = "none",
              !.outcome = [kind |-> "exception", entry |-> m.entry,
                           value |-> EmptyDict]]

\* "result = await asyncio.wait_for(task, timeout=30)" on the branch name:
\* the coroutine of request_* is started and runs to its first await
Launch(m, name) ==
    /\ RequestBegin(name, KindOf(name),
                    RequestFor(AgentId(name), nextId, now, AgentId(name),
                               KindOf(name), m.ticker, "test_user"))
    /\ mgr' = [m EXCEPT !.pc = "collect", !.ids = Append(@, nextId),
                        !.started = now]

\* start_collaborative_analysis from "try:" to its first await: the
\* coroutines are made, none is started, and wait_for is called on the first
BuildTasks(m) ==
    IF m.profile = "raises"
    THEN /\ mgr' = Returned([m EXCEPT !.tasks = SubSeq(BranchOrder, 1, 2)],
                             ErrorMap("get_user_profile"))
         /\ UNCHANGED <<nextId, pending_requests, call>>
    ELSE LET tasks == IF m.profile = "present"
                      THEN BranchOrder ELSE SubSeq(BranchOrder, 1, 2)
         IN Launch([m EXCEPT !.tasks = tasks, !.ids = <<>>,
                             !.results = EmptyTable], tasks[1])

\* a manager call may begin when limit calls are the most explored: no call
\* runs, and an initialize that failed is not tried again before a shutdown
MayCall(limit) ==
    /\ mgr.pc = "idle" /\ mgr.calls < limit /\ now <= MaxClock
    /\ \/ mgr.initialized
       \/ mgr.adapters = {}
       \/ mgr.outcome.entry = "shutdown"

MayBegin == MayCall(MaxRuns)

\* the manager as a call finds it: the locals of the call before are gone
Fresh ==
    [mgr EXCEPT !.calls = @ + 1, !.tasks = <<>>, !.ids = <<>>,
                !.results = EmptyTable, !.started = NoTime,
                !.request = NoRequest]

\* initialize up to its first await: three adapters are made, with empty
\* tables, no websocket and their capabilities registered, and the map names
\* them.  The listeners started before stay bound to the adapters that
\* started them.
EnterInitialize(m) ==
    /\ mgr' = [m EXCEPT !.pc = "init", !.adapters = Adapters, !.server = 1]
    /\ capabilities' = [a \in Adapters |-> Some(Descriptor(a))]
    /\ pending_requests' = [a \in Adapters |-> EmptyTable]
    /\ registered_agents' = [a \in Adapters |-> EmptyTable]
    /\ websocket' = [a \in Adapters |-> NoConn]
    /\ UNCHANGED <<nextId, call>>

\* "if self.initialized: return"
\* (a plausible slip: the test is left out)
AlreadyInitialized_never(m) == FALSE

\* "if self.initialized: return"
AlreadyInitialized(m) == m.initialized

\* a call of initialize by the application, when limit manager calls are the
\* most explored; no request_* call runs on the adapters it would replace
Initialize(limit) ==
    /\ MayCall(limit)
    /\ \A i \in Calls : call[i].pc \in {"done", "cancelled"}
    /\ LET m == [Fresh EXCEPT !.entry = "initialize"]
       IN IF AlreadyInitialized(mgr)
          THEN /\ mgr' = Returned(m, EmptyDict)
               /\ UNCHANGED <<nextId, pending_requests, call, capabilities,
                              websocket, registered_agents>>
          ELSE EnterInitialize(m)
    /\ UNCHANGED <<now, proto, listening, conns, wire, reg,
                   handling>>

InitializeCall == Initialize(MaxRuns)

\* start_collaborative_analysis(ticker, user_id), entered directly or from
\* handle_external_request: "if not self.initialized: await
\* self.initialize()" and on to the first await
AnalysisCall(entry, ticker, profile) ==
    /\ MayBegin
    /\ LET m == [Fresh EXCEPT !.entry = entry, !.ticker = ticker,
                              !.profile = profile]
       IN IF mgr.initialized
          THEN /\ BuildTasks(m)
               /\ UNCHANGED <<capabilities, websocket, registered_agents>>
          ELSE EnterInitialize(m)
    /\ UNCHANGED <<now, proto, listening, conns, wire, reg,
                   handling>>

StartCollaborativeAnalysis(ticker, profile) ==
    AnalysisCall("direct", ticker, profile)

\* the requests handle_external_request is given: request.get("ticker") is
\* "" when the key is absent, and user_id is absent (None) or given, as an
\* empty or as a proper id
ExternalRequests ==
    [type : {"stock_analysis", "portfolio_analysis", "news"},
     ticker : Tickers \cup {""},
     user_id : {None, Some(""), Some("user_1")}]

\* request.get("user_id", "external_user")
UserIdOf(request) ==
    IF request.user_id = None THEN "external_user"
    ELSE TheVal(request.user_id)

\* handle_external_request(request); raises is whether the portfolio
\* collaborators raise.  The manager's record keeps the request that was
\* answered without a collaborative analysis.
HandleExternalRequest(request, profile, raises) ==
    IF request.type = "stock_analysis" /\ request.ticker # ""
    THEN AnalysisCall("external", request.ticker, profile)
    ELSE /\ MayBegin
         /\ LET m == [Fresh EXCEPT !.entry = "external", !.request = request]
                user_id == UserIdOf(request)
            IN mgr' = IF request.type = "portfolio_analysis" /\ user_id # ""
                      THEN IF raises \/ profile = "raises"
                           THEN Returned(m, ErrorMap("analyze_portfolio"))
                           ELSE Returned(m, [user_id |-> user_id,
                                             analysis |-> EmptyDict,
                                             portfolio_data |-> EmptyDict])
                      ELSE Returned(m, ErrorMap("Invalid request type or missing parameters"))
         /\ UNCHANGED <<now, nextId, proto, listening, conns, websocket,
                        pending_requests, call, wire,
                   capabilities, registered_agents, reg,
                   handling>>

\* initialize: "await adapter.start_server(port)" for the next adapter
\* returns or raises (the port is taken); after the last one initialized is
\* set and the caller goes on; "except ...: raise" hands the exception on
StartNextServer(raises) ==
    /\ mgr.pc = "init"
    /\ LET a == BranchOrder[mgr.server]
       IN IF ~raises /\ a \notin listening
          THEN /\ listening' = listening \cup {a}
               /\ IF mgr.server < Len(BranchOrder)
                  THEN /\ mgr' = [mgr EXCEPT !.server = @ + 1]
                       /\ UNCHANGED <<nextId, pending_requests, call>>
                  ELSE LET m == [mgr EXCEPT !.initialized = TRUE,
                                            !.server = 0]
                       IN IF mgr.entry = "initialize"
                          THEN /\ mgr' = Returned(m, EmptyDict)
                               /\ UNCHANGED <<nextId, pending_requests, call>>
                          ELSE BuildTasks(m)
          ELSE /\ listening' = listening
               /\ mgr' = IF mgr.entry = "external"
                         THEN Returned(mgr, ErrorMap("start_server"))
                         ELSE Raised(mgr)
               /\ UNCHANGED <<nextId, pending_requests, call>>
    /\ UNCHANGED <<now, proto, conns, websocket, wire,
                   capabilities, registered_agents, reg,
                   handling>>

---------------------------------------------------------------------------
(* One adapter, its callers and a peer connected to its listener *)

\* the state after construction, but for the protocol factory's input
Constructed ==
    /\ now = 0
    /\ nextId = 1
    /\ listening = {}
    /\ conns = {}
    /\ websocket = [a \in Adapters |-> NoConn]
    /\ pending_requests = [a \in Adapters |-> EmptyTable]
    /\ call = EmptyTable
    /\ wire = NoFrames
    /\ mgr = NoManager
    /\ capabilities = NoCapabilities
    /\ registered_agents = [a \in Adapters |-> EmptyTable]
    /\ reg = NoRegistryCall
    /\ handling = NoHandlers

Init ==
    /\ proto = NoCall
    /\ Constructed

\* the adapter whose calls and dispatch are explored, and its peer
Self == "investment"
Peer == "P1"

Next ==
    \/ StartServer(Self)
    \/ PeerConnect(Peer, Self)
    \/ PeerClose(Peer, Self)
    \/ PeerFrame(Peer, Self)
    \/ \E type \in RequestKinds : RequestCall(Self, type, "external_agent")
    \/ \E i \in Calls, raises \in BOOLEAN : SendMessage(i, raises)
    \/ \E i \in Calls : WaitTurn(i)
    \/ \E t \in Instants : Tick(t)

Spec == Init /\ [][Next]_vars
\* the steps the event loop and the transport are bound to take: a
\* send_message that was begun returns, a sleeping wait takes its next turn,
\* and time passes
Fairness ==
    /\ WF_vars(\E t \in Instants : Tick(t))
    /\ \A i \in 1..MaxCalls :
          /\ WF_vars(\E raises \in BOOLEAN : SendMessage(i, raises))
          /\ WF_vars(WaitTurn(i))

FairSpec == Spec /\ Fairness

\* the request id and the name of the branch wait_for is awaited on
CurrentTask == mgr.ids[Len(mgr.ids)]
CurrentName == mgr.tasks[Len(mgr.ids)]

\* wait_for's timeout of 30 seconds fires: the task is cancelled where it
\* is suspended, and its pending record stays
OuterTimeout ==
    /\ mgr.pc = "collect"
    /\ call[CurrentTask].pc \in {"send", "sleep"}
    /\ now - mgr.started >= WaitTimeout
    /\ call' = [call EXCEPT ![CurrentTask].pc = "cancelled"]
    /\ UNCHANGED <<now, nextId, proto, listening, conns, websocket,
                   pending_requests, wire, mgr,
                   capabilities, registered_agents, reg,
                   handling>>

\* "integrated_analysis = self._integrate_analysis_results(ticker, results)
\*  return integrated_analysis"
\* (a plausible slip: a run without any result is reported as an error)
CollaborativeResult_strict(ticker, results, ts) ==
    IF DOMAIN results = {} THEN ErrorMap("no results")
    ELSE integrate_analysis_results(ticker, results, ts)

\* "integrated_analysis = self._integrate_analysis_results(ticker, results)
\*  return integrated_analysis"
CollaborativeResult(ticker, results, ts) ==
    integrate_analysis_results(ticker, results, ts)

\* the loop of start_collaborative_analysis from the return of wait_for (the
\* task returned its result, or was cancelled and TimeoutError is caught)
\* to the next await, or to the return
Collect ==
    /\ mgr.pc = "collect"
    /\ call[CurrentTask].pc \in {"done", "cancelled"}
    /\ LET result == IF call[CurrentTask].pc = "done"
                     THEN call[CurrentTask].result ELSE None
           results == Collected(mgr.results, CurrentName, result)
           m == [mgr EXCEPT !.results = results]
       IN IF Len(mgr.ids) < Len(mgr.tasks)
          THEN Launch(m, mgr.tasks[Len(mgr.ids) + 1])
          ELSE /\ mgr' = Returned(m, CollaborativeResult(m.ticker, results, now))
               /\ UNCHANGED <<nextId, pending_requests, call>>
    /\ UNCHANGED <<now, proto, listening, conns, websocket, wire,
                   capabilities, registered_agents, reg,
                   handling>>

\* the payload the agent behind adapter a answers with
AnalysisData(a) ==
    CASE a = "investment" -> [overall_score |-> 80, confidence_score |-> 9]
      [] a = "risk" -> [overall_risk_score |-> 20, risk_level |-> "high",
                        confidence_score |-> 7]
      [] a = "portfolio" -> [overall_score |-> 60, confidence |-> "medium"]

\* the replies of the agent connected to the listener of adapter a to the
\* request i
AgentReplies(a, i) ==
    {A2AMessage(0, Peer, AgentId(a), RESPONSE, HIGH, now, d, i) :
        d \in {EmptyDict, AnalysisData(a)}}
    \cup {A2AMessage(0, Peer, AgentId(a), ERROR, HIGH, now, ErrorPayload, i)}

\* the agent connected to the listener of adapter a answers, once, a request
\* that is waited on
AgentReply(a) ==
    /\ Connection(Peer, a) \in conns
    /\ \E i \in Calls :
          /\ call[i].adapter = a /\ call[i].pc = "sleep" /\ ~call[i].replied
          /\ \E message \in AgentReplies(a, i) :
                HandleFrame(a, Connection(Peer, a), Frame(message), None,
                            FALSE, wire)
    /\ UNCHANGED <<now, proto, listening, conns, websocket, mgr, capabilities,
                   reg,
                   handling>>

\* an agent connects to the listener of adapter a, before the branches run
AgentConnect(a) ==
    /\ mgr.pc # "collect"
    /\ PeerConnect(Peer, a)

\* time passes while the manager is idle or waits on a branch that sleeps;
\* its own steps take no time to the second
ManagerTick(t) ==
    /\ \/ mgr.pc = "idle"
       \/ mgr.pc = "collect" /\ call[CurrentTask].pc = "sleep"
    /\ Tick(t)

\* a manager as constructed, or one that initialize has returned from
Initialized ==
    [NoManager EXCEPT !.initialized = TRUE, !.adapters = Adapters,
                      !.outcome = [kind |-> "result", entry |-> "initialize",
                                   value |-> EmptyDict]]

CollabInit ==
    /\ proto = NoCall
    /\ now = 0
    /\ nextId = 1
    /\ conns = {}
    /\ websocket = [a \in Adapters |-> NoConn]
    /\ pending_requests = [a \in Adapters |-> EmptyTable]
    /\ call = EmptyTable
    /\ wire = NoFrames
    /\ registered_agents = [a \in Adapters |-> EmptyTable]
    /\ reg = NoRegistryCall
    /\ handling = NoHandlers
    /\ \/ mgr = NoManager /\ listening = {} /\ capabilities = NoCapabilities
       \/ /\ mgr = Initialized /\ listening = Adapters
          /\ capabilities = [a \in Adapters |-> Some(Descriptor(a))]

CollabNext ==
    \/ InitializeCall
    \/ \E ticker \in Tickers, profile \in Profiles :
          StartCollaborativeAnalysis(ticker, profile)
    \/ \E request \in ExternalRequests, profile \in Profiles,
          raises \in BOOLEAN : HandleExternalRequest(request, profile, raises)
    \/ \E raises \in BOOLEAN : StartNextServer(raises)
    \/ \E a \in Adapters : AgentConnect(a)
    \/ \E a \in Adapters : AgentReply(a)
    \/ \E i \in Calls, raises \in BOOLEAN : SendMessage(i, raises)
    \/ \E i \in Calls : WaitTurn(i)
    \/ OuterTimeout
    \/ Collect
    \/ \E t \in Instants : ManagerTick(t)

CollabSpec == CollabInit /\ [][CollabNext]_vars

---------------------------------------------------------------------------
(* The aggregation on every table of branch results.  The manager stands
   after the loop of start_collaborative_analysis, with a results dict the
   agents' answers may have left: each branch absent, or present with a
   payload that carries a score, a confidence signal, or both. *)

\* the scores an agent reports; the documented range is 0..100 and nothing
\* checks it
Scores == {0, 20, 60, 80, 100, 120}

\* the confidence an agent reports: a number (in tenths) or a text
ConfidenceNumbers == {9}
ConfidenceTexts == {"HIGH", "medium", "low", "unknown"}

\* the key under which the branch name reports its score
ScoreKey(name) == IF name = "risk" THEN "overall_risk_score" ELSE "overall_score"

\* the payloads with a score, with or without a confidence signal
ScoredPayloads(name) ==
    {[k \in {ScoreKey(name)} |-> s] : s \in Scores}
    \cup {[k \in {ScoreKey(name), "confidence_score"} |->
              IF k = "confidence_score" THEN c ELSE s] :
          s \in Scores, c \in ConfidenceNumbers}
    \cup {[k \in {ScoreKey(name), "confidence"} |->
              IF k = "confidence" THEN t ELSE s] :
          s \in Scores, t \in ConfidenceTexts}

\* the payloads with a confidence signal and no score
UnscoredPayloads ==
    {[confidence_score |-> c] : c \in ConfidenceNumbers}
    \cup {[confidence |-> t] : t \in ConfidenceTexts}

\* the risk levels a risk agent may report: those the repository's detector
\* gives, and the same words as another agent may spell them
RiskLevels == {"low", "medium", "high", "critical", "HIGH", "CRITICAL"}

\* the payloads of the risk branch that carry a risk level
LevelledPayloads ==
    {[overall_risk_score |-> 20, risk_level |-> l] : l \in RiskLevels}

BranchPayloads(name) ==
    ScoredPayloads(name) \cup UnscoredPayloads
    \cup (IF name = "risk" THEN LevelledPayloads ELSE {})

\* the results dicts the loop may leave
ResultTables ==
    UNION {[names -> UNION {BranchPayloads(n) : n \in names}] :
           names \in SUBSET Adapters}

WellKeyed(results) ==
    \A n \in DOMAIN results : results[n] \in BranchPayloads(n)

AggInit ==
    /\ proto = NoCall
    /\ now = 0
    /\ nextId = 1
    /\ listening = Adapters
    /\ conns = {}
    /\ websocket = [a \in Adapters |-> NoConn]
    /\ pending_requests = [a \in Adapters |-> EmptyTable]
    /\ call = EmptyTable
    /\ wire = NoFrames
    /\ capabilities = [a \in Adapters |-> Some(Descriptor(a))]
    /\ registered_agents = [a \in Adapters |-> EmptyTable]
    /\ reg = NoRegistryCall
    /\ handling = NoHandlers
    /\ \E results \in ResultTables :
          /\ WellKeyed(results)
          /\ mgr = [Initialized EXCEPT !.pc = "integrate", !.entry = "direct",
                                       !.ticker = "AAPL",
                                       !.tasks = BranchOrder,
                                       !.results = results]

\* "integrated_analysis = self._integrate_analysis_results(ticker, results)
\*  return integrated_analysis"
IntegrateResults ==
    /\ mgr.pc = "integrate"
    /\ mgr' = Returned(mgr, CollaborativeResult(mgr.ticker, mgr.results, now))
    /\ UNCHANGED <<now, nextId, proto, listening, conns, websocket,
                   pending_requests, call, wire,
                   capabilities, registered_agents, reg,
                   handling>>

AggNext == IntegrateResults

AggSpec == AggInit /\ [][AggNext]_vars

---------------------------------------------------------------------------
(* Two adapters end to end: Client connects to the listener of Server and
   sends it requests.  Nothing in a2a_adapter.py reads the client end of a
   connection: receive_message has no caller, and _handle_message is reached
   only from handle_client, the listener's loop. *)

Client == "risk"
Server == "investment"

PairNext ==
    \/ StartServer(Server)
    \/ Connect(Client, Server)
    \/ \E type \in RequestKinds : RequestCall(Client, type, AgentId(Server))
    \/ \E i \in Calls, raises \in BOOLEAN : SendMessage(i, raises)
    \/ ListenFrame(Server, Connection(Client, Server))
    \/ \E i \in Calls : WaitTurn(i)
    \/ \E t \in Instants : Tick(t)

PairSpec == Init /\ [][PairNext]_vars

---------------------------------------------------------------------------
(* The sweep of the pending table.  request_* leaves its record in the table
   when send_message returned False, so a table holds records of any age;
   the sweep starts from every table of up to MaxRecords such records. *)

MaxRecords == 3

\* the ages, in whole seconds, of the records swept: around the threshold,
\* and around the threshold one day later
Ages == {0, ExpirySeconds, ExpirySeconds + 1, DaySeconds,
         DaySeconds + ExpirySeconds - 200,
         DaySeconds + ExpirySeconds + 1}

\* the time at which the sweep runs
SweepTime == 2 * DaySeconds

\* the call that stored a record at time ts and returned on a failed send
FailedCall(a, i, ts) ==
    [pc |-> "done", adapter |-> a, type |-> KindOf(a),
     request |-> RequestMsg(AgentId(a), i, ts, "external_agent", KindOf(a)),
     sent |-> "failed", start_time |-> NoTime, result |-> None,
     replied |-> FALSE]

LeftRecord(a, i, ts) ==
    PendingRecord(RequestMsg(AgentId(a), i, ts, "external_agent", KindOf(a)),
                  ts, KindOf(a))

CleanupInit ==
    /\ proto = NoCall
    /\ now = SweepTime
    /\ nextId = MaxRecords + 1
    /\ listening = {}
    /\ conns = {}
    /\ websocket = [a \in Adapters |-> NoConn]
    /\ wire = NoFrames
    /\ mgr = NoManager
    /\ capabilities = NoCapabilities
    /\ registered_agents = [a \in Adapters |-> EmptyTable]
    /\ reg = NoRegistryCall
    /\ handling = NoHandlers
    /\ \E age \in [1..MaxRecords -> Ages], swept \in SUBSET (1..MaxRecords) :
          /\ call = [i \in 1..MaxRecords |->
                        FailedCall(Self, i, SweepTime - age[i])]
          /\ pending_requests =
                [a \in Adapters |->
                    IF a = Self
                    THEN [i \in (1..MaxRecords) \ swept |->
                             LeftRecord(Self, i, SweepTime - age[i])]
                    ELSE EmptyTable]

CleanupNext == CleanupExpired(Self)

CleanupSpec == CleanupInit /\ [][CleanupNext]_vars

---------------------------------------------------------------------------
(* The protocol factory on every envelope *)

ProtoNext ==
    \/ ProtoCreateResponse
    \/ ProtoCreateErrorResponse

ProtoInit ==
    /\ \E r \in InputEnvelopes : proto = ProtoInput(r)
    /\ Constructed

ProtoSpec == ProtoInit /\ [][ProtoNext]_vars

---------------------------------------------------------------------------
(* The codec: to_dict / from_dict and serialize_message /
   deserialize_message.  A Python value held in a payload is tagged with its
   type (py), a JSON value of the text with its JSON type (json); the text
   is the JSON document it spells, or text that is no JSON at all.  A
   datetime is written by isoformat as a string that spells the instant. *)

JStr(s) == [json |-> "string", s |-> s]
JNum(n) == [json |-> "number", n |-> n]
JNull == [json |-> "null"]
JArr(items) == [json |-> "array", items |-> items]
JObj(members) == [json |-> "object", members |-> members]

\* datetime.isoformat and datetime.fromisoformat
isoformat(t) == [json |-> "string", iso |-> t]
IsIso(x) == x.json = "string" /\ HasKey(x, "iso")

\* json.dumps can encode the value: an Enum member is not JSON serializable
RECURSIVE Encodable(_)
Encodable(v) ==
    CASE v.py = "enum" -> FALSE
      [] v.py = "list" -> \A i \in DOMAIN v.items : Encodable(v.items[i])
      [] v.py = "dict" -> \A k \in DOMAIN v.d : Encodable(v.d[k])
      [] OTHER -> TRUE

\* the JSON value json.dumps writes for an encodable value
RECURSIVE JsonOf(_)
JsonOf(v) ==
    CASE v.py = "str" -> JStr(v.s)
      [] v.py = "number" -> JNum(v.n)
      [] v.py = "None" -> JNull
      [] v.py = "list" -> JArr([i \in DOMAIN v.items |-> JsonOf(v.items[i])])
      [] v.py = "dict" -> JObj([k \in DOMAIN v.d |-> JsonOf(v.d[k])])

\* the Python value json.loads builds for a JSON value
RECURSIVE PyOf(_)
PyOf(x) ==
    CASE x.json = "string" -> IF IsIso(x) THEN [py |-> "str", iso |-> x.iso]
                              ELSE PyStr(x.s)
      [] x.json = "number" -> PyNum(x.n)
      [] x.json = "null" -> PyNone
      [] x.json = "array" -> PyList([i \in DOMAIN x.items |-> PyOf(x.items[i])])
      [] x.json = "object" ->
            PyDict([k \in DOMAIN x.members |-> PyOf(x.members[k])])

\* an envelope with an expiry
Expiring(message, expires_at) == [message EXCEPT !.expires_at = expires_at]

\* A2AMessage.to_dict: asdict, then the timestamp and the expiry written by
\* isoformat and the two enums replaced by their values.  The result holds
\* Python values; the payload is the envelope's payload as it is
to_dict(message) ==
    [message_id |-> PyStr(message.message_id),
     sender_id |-> PyStr(message.sender_id),
     receiver_id |-> PyStr(message.receiver_id),
     message_type |-> PyStr(message.message_type),
     priority |-> PyNum(message.priority),
     timestamp |-> [py |-> "str", iso |-> message.timestamp],
     payload |-> PyDict(message.payload),
     correlation_id |-> IF message.correlation_id = NoId THEN PyNone
                        ELSE PyStr(message.correlation_id),
     expires_at |-> IF IsSome(message.expires_at)
                    THEN [py |-> "str", iso |-> TheVal(message.expires_at)]
                    ELSE PyNone]

\* json.dumps of the dict to_dict gave
json_dumps(data) ==
    IF \A k \in DOMAIN data :
          HasKey(data[k], "iso") \/ Encodable(data[k])
    THEN [ok |-> TRUE,
          text |-> [kind |-> "json",
                    doc |-> JObj([k \in DOMAIN data |->
                                  IF HasKey(data[k], "iso")
                                  THEN isoformat(data[k].iso)
                                  ELSE JsonOf(data[k])])]]
    ELSE [ok |-> FALSE, error |-> "TypeError"]

\* A2AProtocol.serialize_message
serialize_message(message) == json_dumps(to_dict(message))

Failed(error) == [ok |-> FALSE, error |-> error]

MessageFields ==
    {"message_id", "sender_id", "receiver_id", "message_type", "priority",
     "timestamp", "payload", "correlation_id", "expires_at"}
RequiredFields == MessageFields \ {"correlation_id", "expires_at"}

\* data.get('expires_at') is truthy
HasExpiry(members) ==
    /\ HasKey(members, "expires_at")
    /\ members["expires_at"].json # "null"

\* the envelope "cls(**data)" builds once the four conversions are done
Built(members) ==
    [message_id |-> members["message_id"].s,
     sender_id |-> members["sender_id"].s,
     receiver_id |-> members["receiver_id"].s,
     message_type |-> members["message_type"].s,
     priority |-> members["priority"].n,
     timestamp |-> members["timestamp"].iso,
     payload |-> PyOf(members["payload"]).d,
     correlation_id |-> IF HasKey(members, "correlation_id")
                           /\ members["correlation_id"].json # "null"
                        THEN members["correlation_id"].s ELSE NoId,
     expires_at |-> IF HasExpiry(members)
                    THEN Some(members["expires_at"].iso) ELSE None]

\* A2AMessage.from_dict on the value json.loads gave: the lookups and
\* conversions in the order of the code, each with the exception it raises
from_dict(data) ==
    IF data.json # "object" THEN Failed("TypeError")
    ELSE LET members == data.members IN
      IF ~HasKey(members, "message_type") THEN Failed("KeyError")
      ELSE IF ~(members["message_type"].json = "string"
                /\ ~IsIso(members["message_type"])
                /\ members["message_type"].s \in MessageType)
           THEN Failed("ValueError")
      ELSE IF ~HasKey(members, "priority") THEN Failed("KeyError")
      ELSE IF ~(members["priority"].json = "number"
                /\ members["priority"].n \in Priority)
           THEN Failed("ValueError")
      ELSE IF ~HasKey(members, "timestamp") THEN Failed("KeyError")
      ELSE IF members["timestamp"].json # "string" THEN Failed("TypeError")
      ELSE IF ~IsIso(members["timestamp"]) THEN Failed("ValueError")
      ELSE IF HasExpiry(members) /\ members["expires_at"].json # "string"
           THEN Failed("TypeError")
      ELSE IF HasExpiry(members) /\ ~IsIso(members["expires_at"])
           THEN Failed("ValueError")
      ELSE IF ~(RequiredFields \subseteq DOMAIN members
                /\ DOMAIN members \subseteq MessageFields)
           THEN Failed("TypeError")
      ELSE [ok |-> TRUE, message |-> Built(members)]

\* A2AProtocol.deserialize_message: json.loads, then from_dict
deserialize_message(text) ==
    IF text.kind # "json" THEN Failed("JSONDecodeError")
    ELSE from_dict(text.doc)

\* payloads of the envelopes the codec is given: none, a stock analysis
\* request, an answer, an error with the request it answers, a descriptor
CodecPayloads ==
    {EmptyDict,
     [ticker |-> PyStr("AAPL"), analysis_type |-> PyStr("comprehensive"),
      timeframe |-> PyStr("1m"), user_profile |-> PyNone,
      additional_context |-> PyNone],
     [overall_score |-> PyNum(80)],
     [error_code |-> PyStr("TEST_ERROR"), error_message |-> PyStr("Test error"),
      original_request |-> PyDict([ticker |-> PyStr("AAPL")])],
     Descriptor("investment")}

Expiries == {None, Some(ExpirySeconds)}

\* every envelope the codec may be given
CodecEnvelopes ==
    {Expiring(A2AMessage(i, s, "registry", t, p, ts, d, c), x) :
        i \in Ids, s \in PartyIds, t \in MessageType, p \in Priority,
        ts \in {0, 1}, d \in CodecPayloads, c \in {NoId, 1},
        x \in Expiries}

\* the document of a text
DocOf(message) == serialize_message(message).text.doc.members

Without(members, k) == [j \in DOMAIN members \ {k} |-> members[j]]
With(members, k, v) ==
    [j \in DOMAIN members \cup {k} |-> IF j = k THEN v ELSE members[j]]

\* envelopes whose text the invalid texts are made of
BaseEnvelopes ==
    {m \in CodecEnvelopes : /\ m.message_id = 1 /\ m.timestamp = 0
                            /\ m.priority = HIGH /\ m.sender_id = "external_agent"
                            /\ m.payload # Descriptor("investment")}

\* replacements that make a document invalid: an unknown kind, an unknown
\* priority (a number, a name), a timestamp or an expiry that is no instant
BadValues ==
    {<<"message_type", JStr("bogus")>>, <<"priority", JNum(9)>>,
     <<"priority", JStr("high")>>, <<"timestamp", JStr("yesterday")>>,
     <<"timestamp", JNum(0)>>, <<"expires_at", JStr("never")>>,
     <<"unknown_field", JNum(1)>>}

\* text that is not a structurally valid envelope: no JSON, JSON that is no
\* object, a required field missing, a bad tag or value
InvalidTexts ==
    {[kind |-> "garbage"], [kind |-> "json", doc |-> JArr(<<JNum(1)>>)],
     [kind |-> "json", doc |-> JObj(EmptyDict)]}
    \cup {[kind |-> "json", doc |-> JObj(Without(DocOf(m), k))] :
            m \in BaseEnvelopes, k \in RequiredFields}
    \cup {[kind |-> "json", doc |-> JObj(With(DocOf(m), b[1], b[2]))] :
            m \in BaseEnvelopes, b \in BadValues}

\* the codec is handed the envelope e / the text
CodecEnvelope(e) == [op |-> "envelope", message |-> e]
CodecText(text) == [op |-> "text", text |-> text]

CodecInit ==
    /\ Constructed
    /\ \/ \E e \in CodecEnvelopes : proto = CodecEnvelope(e)
       \/ \E text \in InvalidTexts : proto = CodecText(text)

\* serialize_message(message)
SerializeMessage ==
    /\ proto.op = "envelope"
    /\ proto' = [op |-> "serialized", message |-> proto.message,
                 out |-> serialize_message(proto.message)]
    /\ UNCHANGED <<now, nextId, listening, conns, websocket, pending_requests,
                   call, wire, mgr,
                   capabilities, registered_agents, reg,
                   handling>>

\* deserialize_message on the text serialize_message returned
DeserializeMessage ==
    /\ proto.op = "serialized"
    /\ proto.out.ok
    /\ proto' = [op |-> "deserialized", message |-> proto.message,
                 text |-> proto.out.text,
                 back |-> deserialize_message(proto.out.text)]
    /\ UNCHANGED <<now, nextId, listening, conns, websocket, pending_requests,
                   call, wire, mgr,
                   capabilities, registered_agents, reg,
                   handling>>

\* deserialize_message on a text received
DeserializeText ==
    /\ proto.op = "text"
    /\ proto' = [op |-> "parsed", text |-> proto.text,
                 back |-> deserialize_message(proto.text)]
    /\ UNCHANGED <<now, nextId, listening, conns, websocket, pending_requests,
                   call, wire, mgr,
                   capabilities, registered_agents, reg,
                   handling>>

CodecNext ==
    \/ SerializeMessage
    \/ DeserializeMessage
    \/ DeserializeText

CodecSpec == CodecInit /\ [][CodecNext]_vars

---------------------------------------------------------------------------
(* One listener and its peers.  Two external peers connect to the listener
   of Self, write frames on their connections and close them; handle_client
   reads each connection's frames in order and hands the envelopes addressed
   to Self to the router. *)

\* A2AAdapter.register_capabilities
RegisterCapabilities(a) ==
    /\ capabilities[a] = None
    /\ capabilities' = [capabilities EXCEPT ![a] = Some(Descriptor(a))]
    /\ UNCHANGED <<now, nextId, proto, listening, conns, websocket,
                   pending_requests, call, wire, mgr, registered_agents, reg,
                   handling>>

\* the kinds of envelope a peer sends to a listener
PeerKinds == {CAPABILITY_QUERY, HEARTBEAT, REGISTRATION, REQUEST}

\* the uuid4 of the envelope of kind t peer p sends
PeerMessageId(p, t) ==
    (IF p = "P1" THEN 10 ELSE 20)
    + (CASE t = CAPABILITY_QUERY -> 1 [] t = HEARTBEAT -> 2
         [] t = REGISTRATION -> 3 [] t = REQUEST -> 4)

\* the payload of the envelope of kind t a peer sends: a query for any role,
\* nothing, the peer's descriptor as its JSON text gives it, a stock request
PeerPayload(t) ==
    CASE t = REGISTRATION -> [role |-> PyStr("market_researcher"),
                              version |-> PyStr("1.0.0")]
      [] t = REQUEST -> StockPayload("AAPL", "comprehensive", "1m")
      [] OTHER -> EmptyDict

\* the envelopes peer p may send on its connection to adapter a
PeerMessages(p, a) ==
    {A2AMessage(PeerMessageId(p, t), p, r, t, NORMAL, now, PeerPayload(t),
                NoId) :
        t \in PeerKinds, r \in {AgentId(a), "external_agent"}}

RECURSIVE Unread(_, _)
\* the frames written to the listener of a that handle_client has not read
Unread(a, cs) ==
    IF cs = {} THEN 0
    ELSE LET c == CHOOSE x \in cs : TRUE
         IN (IF c.server = a THEN Len(wire[c].up) ELSE 0)
            + Unread(a, cs \ {c})

\* peer p writes a frame on its connection to adapter a
PeerSend(p, a) ==
    /\ Connection(p, a) \in conns
    /\ nextId + Unread(a, AllConns) <= MaxId
    /\ \E message \in PeerMessages(p, a) :
          wire' = [wire EXCEPT ![Connection(p, a)].up =
                                   Append(@, Frame(message))]
    /\ UNCHANGED <<now, nextId, proto, listening, conns, websocket,
                   pending_requests, call, mgr, capabilities,
                   registered_agents, reg,
                   handling>>

ServeNext ==
    \/ StartServer(Self)
    \/ RegisterCapabilities(Self)
    \/ \E p \in Peers : PeerConnect(p, Self)
    \/ \E p \in Peers : PeerClose(p, Self)
    \/ \E p \in Peers : PeerSend(p, Self)
    \/ \E p \in Peers : ListenFrame(Self, Connection(p, Self))

ServeSpec == Init /\ [][ServeNext]_vars

---------------------------------------------------------------------------
(* connect_to_registry.  In the record of the call, pc is where it stands
   ("connecting": it awaits transport.connect), connects the calls it made
   of transport.connect, connected what connect returned, sent the envelopes
   it handed to transport.send_message, and outcome how it ended. *)

\* A2AProtocol.get_registration_message, once "if not self.capabilities"
\* was passed
get_registration_message(self, id, ts, descriptor) ==
    create_message(self, id, ts, "registry", REGISTRATION, descriptor,
                   NORMAL, NoId)

\* json.dumps(message.to_dict()) in WebSocketTransport.send_message gives a
\* text: the payload holds no value json.dumps cannot encode
Serializable(message) == Encodable(PyDict(message.payload))

\* what connect_to_registry hands to send_message whatever connect returned
\* (a plausible slip: the "if" is dropped)
AfterConnect_always(ok, registration_msg) == <<registration_msg>>

\* "if await self.transport.connect(registry_endpoint):
\*      registration_msg = ...; await self.transport.send_message(...)"
AfterConnect(ok, registration_msg) ==
    IF ok THEN <<registration_msg>> ELSE <<>>

\* connect_to_registry(endpoint of b) on adapter a, up to its first await,
\* or to "raise ValueError"
ConnectToRegistry(a, b) ==
    /\ reg.pc = "idle" /\ a # b
    /\ reg' = IF capabilities[a] = None
              THEN [pc |-> "done", adapter |-> a, endpoint |-> b,
                    outcome |-> "ValueError", connects |-> 0,
                    connected |-> FALSE, sent |-> <<>>]
              ELSE [pc |-> "connecting", adapter |-> a, endpoint |-> b,
                    outcome |-> "none", connects |-> 1,
                    connected |-> FALSE, sent |-> <<>>]
    /\ UNCHANGED <<now, nextId, proto, listening, conns, websocket,
                   pending_requests, call, wire, mgr, capabilities,
                   registered_agents, handling>>

\* transport.connect returns ok, and connect_to_registry runs to its end;
\* raises is whether websocket.send raises
RegistryConnected(ok, raises) ==
    /\ reg.pc = "connecting"
    /\ LET a == reg.adapter
           c == Connection(reg.adapter, reg.endpoint)
           registration_msg ==
               get_registration_message(AgentId(a), nextId, now,
                                        TheVal(capabilities[a]))
       IN IF ok
          THEN /\ reg.endpoint \in listening /\ c \notin conns
               /\ wire[c] = NoFrames[c]
               /\ conns' = conns \cup {c}
               /\ websocket' = [websocket EXCEPT ![a] = c,
                                                 ![reg.endpoint] = c]
               /\ nextId' = nextId + 1
               /\ wire' = IF Serializable(registration_msg) /\ ~raises
                          THEN [wire EXCEPT ![c].up =
                                   Append(@, Frame(registration_msg))]
                          ELSE wire
               /\ reg' = [reg EXCEPT !.pc = "done", !.outcome = "returned",
                             !.connected = TRUE,
                             !.sent = AfterConnect(TRUE, registration_msg)]
          ELSE /\ reg' = [reg EXCEPT !.pc = "done", !.outcome = "returned",
                             !.connected = FALSE,
                             !.sent = AfterConnect(FALSE, registration_msg)]
               /\ nextId' = IF reg'.sent = <<>> THEN nextId ELSE nextId + 1
               /\ UNCHANGED <<conns, websocket, wire>>
    /\ UNCHANGED <<now, proto, listening, pending_requests, call, mgr,
                   capabilities, registered_agents, handling>>

RegistryNext ==
    \/ \E a \in Adapters : StartServer(a)
    \/ \E a \in Adapters : RegisterCapabilities(a)
    \/ \E a \in Adapters, b \in Adapters : ConnectToRegistry(a, b)
    \/ \E ok \in BOOLEAN, raises \in BOOLEAN : RegistryConnected(ok, raises)

RegistrySpec == Init /\ [][RegistryNext]_vars

---------------------------------------------------------------------------
(* One listener, its peers and the adapter's own request_* calls.  Beside
   the envelopes of ServeSpec the peers send replies correlated to the
   adapter's request, a second descriptor under the same sender id, and a
   Registration that names the adapter itself as its sender. *)

\* the uuid4 of the reply of kind t peer p sends
ReplyId(p, t) ==
    (IF p = "P1" THEN 10 ELSE 20) + (IF t = RESPONSE THEN 5 ELSE 6)

\* the envelopes peer p may send on its connection to adapter a
InboundMessages(p, a) ==
    {m \in PeerMessages(p, a) :
        \/ m.message_type = REGISTRATION
        \/ m.message_type = REQUEST /\ m.receiver_id = AgentId(a)
        \/ m.message_type = HEARTBEAT /\ m.receiver_id # AgentId(a)}
    \cup {A2AMessage(ReplyId(p, t), p, r, t, HIGH, now,
                     IF t = RESPONSE THEN [data |-> "ok"] ELSE ErrorPayload,
                     1) :
             t \in {RESPONSE, ERROR}, r \in {AgentId(a), "external_agent"}}
    \cup {A2AMessage(PeerMessageId(p, REGISTRATION), p, AgentId(a),
                     REGISTRATION, LOW, now,
                     [role |-> PyStr("market_researcher"),
                      version |-> PyStr("2.0.0")], NoId),
          A2AMessage(PeerMessageId(p, REGISTRATION), AgentId(a), AgentId(a),
                     REGISTRATION, CRITICAL, now,
                     [role |-> PyStr("investment_analyzer"),
                      version |-> PyStr("1.0.0")], NoId)}

\* the connections of adapter a whose handler is suspended
Suspended(a) == {c \in AllConns : c.server = a /\ IsSome(handling[c])}

\* peer p writes a frame on its connection to adapter a
InboundSend(p, a) ==
    /\ Connection(p, a) \in conns
    /\ nextId + Unread(a, AllConns) + Cardinality(Suspended(a)) <= MaxId
    /\ \E message \in InboundMessages(p, a) :
          wire' = [wire EXCEPT ![Connection(p, a)].up =
                                   Append(@, Frame(message))]
    /\ UNCHANGED <<now, nextId, proto, listening, conns, websocket,
                   pending_requests, call, mgr, capabilities,
                   registered_agents, reg,
                   handling>>

InboundNext ==
    \/ StartServer(Self)
    \/ \E p \in Peers : PeerConnect(p, Self)
    \/ \E p \in Peers : PeerClose(p, Self)
    \/ \E p \in Peers : InboundSend(p, Self)
    \/ \E p \in Peers : ListenFrame(Self, Connection(p, Self))
    \/ \E type \in RequestKinds : RequestCall(Self, type, "external_agent")
    \/ \E i \in Calls, raises \in BOOLEAN : SendMessage(i, raises)
    \/ \E i \in Calls : WaitTurn(i)

InboundSpec == Init /\ [][InboundNext]_vars

---------------------------------------------------------------------------
(* The protocol factory's constructors on every argument *)

\* the typed-request constructors
TypedConstructors ==
    {"create_stock_analysis_request", "create_portfolio_analysis_request",
     "create_risk_analysis_request"}

\* a call of create_message on the factory of agent self, with any kind,
\* priority and correlation_id argument
FactoryCreateMessage ==
    /\ nextId <= MaxId
    /\ \E self \in PartyIds, receiver_id \in PartyIds,
          message_type \in MessageType, payload \in InputPayloads,
          priority \in Priority, correlation_id \in {NoId} \cup Ids :
          proto' = [op |-> "create_message", self |-> self,
                    correlation_id |-> correlation_id,
                    made |-> create_message(self, nextId, now, receiver_id,
                                            message_type, payload, priority,
                                            correlation_id)]
    /\ nextId' = nextId + 1
    /\ UNCHANGED <<now, listening, conns, websocket, pending_requests, call,
                   wire, mgr, capabilities, registered_agents, reg,
                   handling>>

\* a call of one of the typed-request constructors
FactoryCreateRequest(op) ==
    /\ nextId <= MaxId
    /\ \E self \in PartyIds, receiver_id \in PartyIds,
          ticker \in {"AAPL", "MSFT"}, analysis_type \in {"comprehensive",
          "technical"}, has_positions \in BOOLEAN :
          proto' = [op |-> op, self |-> self, correlation_id |-> NoId,
                    made |->
                      CASE op = "create_stock_analysis_request" ->
                             create_stock_analysis_request(self, nextId, now,
                                receiver_id, ticker, analysis_type, "1m")
                        [] op = "create_portfolio_analysis_request" ->
                             create_portfolio_analysis_request(self, nextId,
                                now, receiver_id, "test_user", has_positions)
                        [] op = "create_risk_analysis_request" ->
                             create_risk_analysis_request(self, nextId, now,
                                receiver_id, ticker)]
    /\ nextId' = nextId + 1
    /\ UNCHANGED <<now, listening, conns, websocket, pending_requests, call,
                   wire, mgr, capabilities, registered_agents, reg,
                   handling>>

FactoryNext ==
    \/ FactoryCreateMessage
    \/ \E op \in TypedConstructors : FactoryCreateRequest(op)

FactorySpec == Init /\ [][FactoryNext]_vars

---------------------------------------------------------------------------
(* The manager's life cycle: initialize, shutdown and initialize again,
   with the adapters in use in between (agents connect to the listeners,
   request_* calls are made on the adapters the manager names).  In the
   manager's record shut and cycled are history flags, shut set by a
   shutdown and cycled by a shutdown of an initialized manager; they are not
   program state. *)

\* the initialize calls explored on one manager
MaxCycles == 3

\* get_agent_status: the flag and the adapters of the map
get_agent_status ==
    [initialized |-> mgr.initialized, adapters |-> mgr.adapters]

\* shutdown: cleanup_expired_requests on every adapter of the map, then
\* "self.initialized = False"; no transport and no listener is closed
Shutdown ==
    /\ mgr.pc = "idle"
    /\ pending_requests' =
          [a \in Adapters |-> IF a \in mgr.adapters
                              THEN Unexpired(pending_requests[a], now)
                              ELSE pending_requests[a]]
    /\ mgr' = [mgr EXCEPT !.initialized = FALSE,
                          !.shut = TRUE,
                          !.cycled = @ \/ mgr.initialized,
                          !.outcome = [kind |-> "result", entry |-> "shutdown",
                                       value |-> EmptyDict]]
    /\ UNCHANGED <<now, nextId, proto, listening, conns, websocket, call,
                   wire, capabilities, registered_agents, reg,
                   handling>>

\* an agent connects to the listener of adapter a of a manager in service
CycleConnect(a) ==
    /\ mgr.initialized /\ mgr.pc = "idle"
    /\ PeerConnect(Peer, a)

\* a request_* call on adapter a of the manager's map
AdapterRequest(a) ==
    /\ a \in mgr.adapters /\ mgr.pc = "idle"
    /\ RequestCall(a, KindOf(a), "external_agent")

CycleNext ==
    \/ Initialize(MaxCycles)
    \/ \E raises \in BOOLEAN : StartNextServer(raises)
    \/ Shutdown
    \/ \E a \in Adapters : CycleConnect(a)
    \/ \E a \in Adapters : AdapterRequest(a)
    \/ \E i \in Calls, raises \in BOOLEAN : SendMessage(i, raises)
    \/ \E i \in Calls : WaitTurn(i)
    \/ \E t \in Instants : Tick(t)

CycleSpec == Init /\ [][CycleNext]_vars

---------------------------------------------------------------------------
(* The handlers of one listener in time.  handle_client runs once per
   connection, and "await message_handler(message)" keeps its loop from
   reading the next frame of that connection until the handler returned.  A
   handler is suspended where it awaits something that does not complete at
   once: the Request handler of the investment adapter at
   "await investment_agent.process_query(...)".  The other handlers and the
   Request handlers of the risk and portfolio adapters, whose collaborators
   are called without await, run to their end in one step. *)

\* the handler of adapter a for the message is suspended before its end
Suspends(a, message) ==
    /\ a = "investment"
    /\ message.message_type = REQUEST
    /\ Accepts(a, message.payload)

\* handle_client reads the frame at the head of connection c and the
\* Request handler runs to "await investment_agent.process_query(...)"
HandlerBegin(a, c) ==
    /\ a \in listening /\ c \in conns /\ c.server = a
    /\ wire[c].up # <<>> /\ handling[c] = None
    /\ Head(wire[c].up).body.receiver_id = AgentId(a)
    /\ Suspends(a, Head(wire[c].up).body)
    /\ handling' = [handling EXCEPT ![c] = Some(Head(wire[c].up).body)]
    /\ wire' = [wire EXCEPT ![c].up = Tail(@)]
    /\ UNCHANGED <<now, nextId, proto, listening, conns, websocket,
                   pending_requests, call, mgr, capabilities,
                   registered_agents, reg>>

\* process_query returns or raises, and the handler suspended on connection
\* c sends its reply and returns to the loop of handle_client
HandlerEnd(a, c) ==
    /\ c \in AllConns /\ c.server = a /\ IsSome(handling[c])
    /\ \E outcome \in Outcomes, raises \in BOOLEAN :
          HandleMessage(a, TheVal(handling[c]), outcome, raises, wire)
    /\ handling' = [handling EXCEPT ![c] = None]
    /\ UNCHANGED <<now, proto, listening, conns, websocket, mgr, capabilities,
                   reg>>

\* handle_client reads the frame at the head of connection c, and the
\* envelope is dropped or its handler runs to its end
ListenOther(a, c) ==
    /\ c \in AllConns /\ wire[c].up # <<>>
    /\ ~(/\ Head(wire[c].up).body.receiver_id = AgentId(a)
         /\ Suspends(a, Head(wire[c].up).body))
    /\ ListenFrame(a, c)

OrderNext ==
    \/ StartServer(Self)
    \/ \E p \in Peers : PeerConnect(p, Self)
    \/ \E p \in Peers : PeerClose(p, Self)
    \/ \E p \in Peers : InboundSend(p, Self)
    \/ \E p \in Peers : ListenOther(Self, Connection(p, Self))
    \/ \E p \in Peers : HandlerBegin(Self, Connection(p, Self))
    \/ \E p \in Peers : HandlerEnd(Self, Connection(p, Self))

OrderSpec == Init /\ [][OrderNext]_vars

---------------------------------------------------------------------------
(* Stream framing.  WebSocketTransport.send_message writes the string
   sender_id + ":" + json.dumps(message.to_dict()), and handle_client takes
   a string apart with split(":", 1), json.loads and from_dict.  A string is
   the sequence of its pieces: runs of characters other than the colon,
   colons, and the JSON text json.dumps wrote. *)

Colon == [tok |-> ":"]
Chars(s) == [tok |-> "chars", s |-> s]
Doc(text) == [tok |-> "json", text |-> text]

\* the characters of an agent id
Spell(id) ==
    IF id = "team:agent" THEN <<Chars("team"), Colon, Chars("agent")>>
    ELSE <<Chars(id)>>

\* message_str of send_message, or the exception json.dumps raised
frame_text(message) ==
    LET out == serialize_message(message)
    IN IF out.ok
       THEN [ok |-> TRUE,
             text |-> Spell(message.sender_id) \o <<Colon, Doc(out.text)>>]
       ELSE out

\* str.split(":", 1): the string cut at its first colon, or the string alone
str_split(text) ==
    LET colons == {i \in 1..Len(text) : text[i] = Colon}
    IN IF colons = {} THEN <<text>>
       ELSE LET k == CHOOSE i \in colons : \A j \in colons : i <= j
            IN <<SubSeq(text, 1, k - 1), SubSeq(text, k + 1, Len(text))>>

\* handle_client: "sender_id, message_data = message_str.split(":", 1)",
\* json.loads(message_data), A2AMessage.from_dict(message_dict), and the
\* test of receiver_id that decides the dispatch
read_frame(self, message_str) ==
    LET parts == str_split(message_str)
    IN IF Len(parts) # 2 THEN Failed("ValueError")
       ELSE IF ~(Len(parts[2]) = 1 /\ parts[2][1].tok = "json")
            THEN Failed("JSONDecodeError")
            ELSE LET back == deserialize_message(parts[2][1].text)
                 IN IF back.ok
                    THEN [ok |-> TRUE, message |-> back.message,
                          dispatched |-> back.message.receiver_id = self]
                    ELSE back

\* the ids an agent may be constructed with
FrameSenders == PartyIds \cup {"team:agent"}

\* the envelopes a transport is asked to send
FrameEnvelopes ==
    {A2AMessage(1, s, r, t, p, 0, d, c) :
        s \in FrameSenders, r \in {AgentId(Self), "external_agent"},
        t \in MessageType, p \in Priority, d \in CodecPayloads,
        c \in {NoId, 1}}

\* what a peer may write before the first colon of a frame
Prefixes == {<<>>, <<Chars("external_agent")>>, <<Chars("someone_else")>>}

FramingInit ==
    /\ Constructed
    /\ \E e \in FrameEnvelopes : proto = CodecEnvelope(e)

\* WebSocketTransport.send_message(message) on an open socket
TransportSend ==
    /\ proto.op = "envelope"
    /\ proto' = [op |-> "framed", message |-> proto.message,
                 out |-> frame_text(proto.message)]
    /\ UNCHANGED <<now, nextId, listening, conns, websocket, pending_requests,
                   call, wire, mgr, capabilities, registered_agents, reg,
                   handling>>

\* a peer writes the JSON text of the envelope behind a prefix of its own
PrefixedSend ==
    /\ proto.op = "envelope"
    /\ serialize_message(proto.message).ok
    /\ \E prefix \in Prefixes :
          proto' = [op |-> "prefixed", message |-> proto.message,
                    prefix |-> prefix,
                    out |-> [ok |-> TRUE,
                             text |-> prefix \o
                                <<Colon,
                                  Doc(serialize_message(proto.message).text)>>]]
    /\ UNCHANGED <<now, nextId, listening, conns, websocket, pending_requests,
                   call, wire, mgr, capabilities, registered_agents, reg,
                   handling>>

\* handle_client of Self reads the string that was written
ListenerRead ==
    /\ proto.op \in {"framed", "prefixed"}
    /\ proto.out.ok
    /\ proto' = [op |-> IF proto.op = "framed" THEN "read"
                        ELSE "read_prefixed",
                 message |-> proto.message, text |-> proto.out.text,
                 back |-> read_frame(AgentId(Self), proto.out.text)]
    /\ UNCHANGED <<now, nextId, listening, conns, websocket, pending_requests,
                   call, wire, mgr, capabilities, registered_agents, reg,
                   handling>>

FramingNext ==
    \/ TransportSend
    \/ PrefixedSend
    \/ ListenerRead

FramingSpec == FramingInit /\ [][FramingNext]_vars

---------------------------------------------------------------------------
(* The Request handlers of the three specialised adapters.  A peer connects
   to the listener of an adapter and sends Requests whose payloads hold the
   keys of a stock, a risk or a portfolio request, or no key at all. *)

\* the payloads of the Requests a peer sends
RequestPayloads ==
    {EmptyDict, StockPayload("AAPL", "comprehensive", "1m"),
     RiskPayload("AAPL"), PortfolioPayload("user_1", TRUE)}

\* the peer writes a Request addressed to adapter a on its connection, once
\* the listeners have read what was written before
RequestSend(p, a) ==
    /\ Connection(p, a) \in conns
    /\ \A c \in AllConns : wire[c].up = <<>>
    /\ nextId <= MaxId
    /\ \E payload \in RequestPayloads :
          wire' = [wire EXCEPT ![Connection(p, a)].up =
                      Append(@, Frame(A2AMessage(PeerMessageId(p, REQUEST), p,
                                                 AgentId(a), REQUEST, NORMAL,
                                                 now, payload, NoId)))]
    /\ UNCHANGED <<now, nextId, proto, listening, conns, websocket,
                   pending_requests, call, mgr, capabilities,
                   registered_agents, reg, handling>>

ReplyNext ==
    \/ \E a \in Adapters : StartServer(a)
    \/ \E a \in Adapters : PeerConnect(Peer, a)
    \/ \E a \in Adapters : PeerClose(Peer, a)
    \/ \E a \in Adapters : RequestSend(Peer, a)
    \/ \E a \in Adapters : ListenFrame(a, Connection(Peer, a))

ReplySpec == Init /\ [][ReplyNext]_vars

---------------------------------------------------------------------------
(* Replies that come late.  One adapter makes request_* calls of its own
   kind while a
   peer on its listener sends Responses and Errors correlated to no request,
   to a request that is outstanding, to one whose record was consumed by the
   waiter, removed at the timeout or swept by cleanup_expired_requests, and
   to a request that was never made. *)

\* the peer writes a reply on its connection, once the listener has read what
\* was written before
LateSend(p, a) ==
    /\ Connection(p, a) \in conns
    /\ wire[Connection(p, a)].up = <<>>
    /\ \E message \in PeerReplies(p, a) :
          wire' = [wire EXCEPT ![Connection(p, a)].up =
                                   Append(@, Frame(message))]
    /\ UNCHANGED <<now, nextId, proto, listening, conns, websocket,
                   pending_requests, call, mgr, capabilities,
                   registered_agents, reg, handling>>

\* no call runs and time passes beyond the age at which a record expires
LongIdle ==
    /\ Calls # {} /\ \A i \in Calls : call[i].pc = "done"
    /\ now < ExpirySeconds
    /\ now' = now + ExpirySeconds + 1
    /\ UNCHANGED <<nextId, proto, listening, conns, websocket,
                   pending_requests, call, wire, mgr, capabilities,
                   registered_agents, reg, handling>>

LateNext ==
    \/ StartServer(Self)
    \/ PeerConnect(Peer, Self)
    \/ LateSend(Peer, Self)
    \/ ListenFrame(Self, Connection(Peer, Self))
    \/ RequestCall(Self, KindOf(Self), "external_agent")
    \/ \E i \in Calls, raises \in BOOLEAN : SendMessage(i, raises)
    \/ \E i \in Calls : WaitTurn(i)
    \/ \E t \in Instants : Tick(t)
    \/ LongIdle
    \/ CleanupExpired(Self)

LateSpec == Init /\ [][LateNext]_vars

---------------------------------------------------------------------------
(* Two requests outstanding on one adapter.  The adapter makes up to
   MaxOutstanding request_* calls of its own kind, and the peer on its listener answers in
   any order, with Responses and Errors correlated to either request or to
   none. *)

MaxOutstanding == 2

\* a request_* call by any caller of the adapter, beside the calls that run
CrossCall(a, type) ==
    /\ nextId <= MaxOutstanding
    /\ now <= MaxClock
    /\ RequestStart(a, type, "external_agent")
    /\ UNCHANGED <<now, proto, listening, conns, websocket, wire, mgr,
                   capabilities, registered_agents, reg, handling>>

CrossNext ==
    \/ StartServer(Self)
    \/ PeerConnect(Peer, Self)
    \/ LateSend(Peer, Self)
    \/ ListenFrame(Self, Connection(Peer, Self))
    \/ CrossCall(Self, KindOf(Self))
    \/ \E i \in Calls, raises \in BOOLEAN : SendMessage(i, raises)
    \/ \E i \in Calls : WaitTurn(i)
    \/ \E t \in Instants : Tick(t)

CrossSpec == Init /\ [][CrossNext]_vars

---------------------------------------------------------------------------
(* Registration with another adapter.  An adapter registers its
   capabilities, with the role a member of AgentRole as initialize gives it
   or a member of an Enum that is also a str, and calls connect_to_registry
   on the endpoint of another adapter's listener, whose handle_client reads
   what arrives. *)

\* a descriptor whose role json.dumps can encode: a member of an Enum that
\* derives from str is written as its value
PlainDescriptor(a) == [Descriptor(a) EXCEPT !.role = PyStr(RoleOf(a))]

\* A2AAdapter.register_capabilities with such a descriptor
RegisterPlain(a) ==
    /\ capabilities[a] = None
    /\ capabilities' = [capabilities EXCEPT ![a] = Some(PlainDescriptor(a))]
    /\ UNCHANGED <<now, nextId, proto, listening, conns, websocket,
                   pending_requests, call, wire, mgr, registered_agents, reg,
                   handling>>

EnrolNext ==
    \/ \E a \in Adapters : StartServer(a)
    \/ \E a \in Adapters : RegisterCapabilities(a)
    \/ \E a \in Adapters : RegisterPlain(a)
    \/ \E a \in Adapters, b \in Adapters : ConnectToRegistry(a, b)
    \/ \E ok \in BOOLEAN, raises \in BOOLEAN : RegistryConnected(ok, raises)
    \/ \E a \in Adapters, b \in Adapters : ListenFrame(b, Connection(a, b))

\* transport.connect returns, and the handle_client of a connection reads
\* the frames that arrive on it
EnrolFairness ==
    /\ WF_vars(\E ok \in BOOLEAN, raises \in BOOLEAN :
                  RegistryConnected(ok, raises))
    /\ \A a \in Adapters, b \in Adapters :
          WF_vars(ListenFrame(b, Connection(a, b)))

EnrolSpec == Init /\ [][EnrolNext]_vars /\ EnrolFairness

---------------------------------------------------------------------------
(* Claims *)

\* C1: a reply made by create_response or create_error_response for an
\* envelope r carries r's message id as its correlation id and r's sender as
\* its receiver; create_response gives kind Response with r's priority,
\* create_error_response gives kind Error with priority High and a payload
\* holding the given code and message.
C1_ReplyCorrelated ==
    proto.op \in {"create_response", "create_error_response"} =>
        /\ proto.made.correlation_id = proto.orig.message_id
        /\ proto.made.receiver_id = proto.orig.sender_id
        /\ proto.op = "create_response" =>
              /\ proto.made.message_type = RESPONSE
              /\ proto.made.priority = proto.orig.priority
        /\ proto.op = "create_error_response" =>
              /\ proto.made.message_type = ERROR
              /\ proto.made.priority = HIGH
              /\ proto.made.payload.error_code = proto.code
              /\ proto.made.payload.error_message = proto.text

\* an Error reply was made for a low-priority envelope that was itself a
\* reply to something else
C1_Witness ==
    /\ proto.op = "create_error_response"
    /\ proto.orig.priority = LOW
    /\ proto.orig.correlation_id # NoId
    /\ proto.orig.correlation_id # proto.orig.message_id
    /\ proto.code = "TEST_ERROR"

\* a pending record holds an outcome
Resolved(record) == IsSome(record.response) \/ IsSome(record.error)

\* the outcome _wait_for_response reads from a record: the response when the
\* key "response" is there, else the error
Outcome(record) ==
    IF IsSome(record.response) THEN <<RESPONSE, TheVal(record.response)>>
    ELSE IF IsSome(record.error) THEN <<ERROR, TheVal(record.error)>>
    ELSE <<>>

\* C2: a pending record is resolved at most once: once a Response or an Error
\* has been stored in it, no later reply changes the outcome it holds, so
\* that the waiter returns the outcome of the first reply.
C2_ResolvedOnce ==
    [][\A a \in Adapters : \A i \in DOMAIN pending_requests[a] :
          (Resolved(pending_requests[a][i])
              /\ i \in DOMAIN pending_requests'[a])
          => Outcome(pending_requests'[a][i])
                = Outcome(pending_requests[a][i])]_vars

\* the call of request i has returned after a wait in which no reply
\* correlated to i was dispatched
TimedOut(i) ==
    /\ i \in Calls
    /\ call[i].pc = "done"
    /\ call[i].sent = "ok"
    /\ ~call[i].replied

C9_SendFailureReturnsAtOnce ==
    \A i \in Calls :
        call[i].sent = "failed" =>
            /\ call[i].pc = "done"
            /\ call[i].result = None
            /\ call[i].start_time = NoTime

\* a risk request whose send failed on an open websocket
C9_Witness ==
    \E i \in Calls :
        /\ call[i].sent = "failed"
        /\ call[i].type = "risk_analysis"
        /\ SocketOpen(call[i].adapter)
\* the frames the listener's adapter wrote back to the caller of request i
\* before the wait of i ran out, that are Responses correlated to i
ResponsesSent(i) ==
    LET down == wire[Connection(Client, Server)].down
    IN {down[k].body : k \in {n \in 1..Len(down) :
            /\ down[n].body.message_type = RESPONSE
            /\ down[n].body.correlation_id = i
            /\ down[n].body.timestamp < call[i].start_time + WaitTimeout}}

\* C4: when the caller is connected to the listener of a specialised adapter,
\* its request is accepted there and the domain collaborator returns a result
\* within the wait, the request_* call returns that result.
C4_ResponseReachesCaller ==
    \A i \in Calls :
        (call[i].pc = "done" /\ call[i].sent = "ok" /\ ResponsesSent(i) # {})
        => \E r \in ResponsesSent(i) : call[i].result = Some(r.payload)
\* the age of a record at the current time, in whole seconds
Age(record) == now - record.timestamp

\* C10: a sweep leaves in the table exactly the records whose age is at most
\* 300 seconds, whatever their age, a day or more included.
C10_SweepByAge ==
    [][\A a \in Adapters :
          DOMAIN pending_requests'[a] =
              {i \in DOMAIN pending_requests[a] :
                  Age(pending_requests[a][i]) <= ExpirySeconds}]_vars
\* a call of start_collaborative_analysis has gone through its branches
RunEnded ==
    /\ mgr.pc = "idle"
    /\ Len(mgr.tasks) > 0
    /\ Len(mgr.ids) = Len(mgr.tasks)

\* branch j of the run has begun and its request_* has ended, by returning
\* or by cancellation
BranchEnded(j) ==
    j <= Len(mgr.ids) /\ call[mgr.ids[j]].pc \in {"done", "cancelled"}

\* the wait of branch j has completed: a reply or a timeout ended it
WaitCompleted(j) == BranchEnded(j) /\ call[mgr.ids[j]].sent = "ok"

\* the request of branch j has been handed to the transport
RequestSent(j) ==
    j <= Len(mgr.ids) /\ call[mgr.ids[j]].sent # "unsent"

\* C5: the branches run concurrently: whenever the wait of one branch has
\* completed, the request of every branch of the run has been sent.
C5_BranchesConcurrent ==
    mgr.pc = "collect" =>
        ((\E j \in 1..Len(mgr.tasks) : WaitCompleted(j))
            => \A j \in 1..Len(mgr.tasks) : RequestSent(j))

\* what request_* of branch j gave the loop: its result, or none when it
\* was cancelled
BranchResult(j) ==
    IF call[mgr.ids[j]].pc = "done" THEN call[mgr.ids[j]].result ELSE None

\* branch j failed (send failure or Error reply) or timed out
BranchFailed(j) == BranchResult(j) = None

\* branch j timed out: its request was sent and no reply was dispatched
BranchTimedOut(j) ==
    /\ BranchFailed(j)
    /\ call[mgr.ids[j]].sent = "ok"
    /\ ~call[mgr.ids[j]].replied

\* the branches of the run that returned a result, in order
Answered ==
    SelectSeq(mgr.tasks,
              LAMBDA n : \E j \in 1..Len(mgr.tasks) :
                            mgr.tasks[j] = n /\ Truthy(BranchResult(j)))

\* the results of the named branches, as request_* returned them
ResultsOf(names) ==
    [n \in names |->
        TheVal(BranchResult(CHOOSE j \in 1..Len(mgr.tasks) : mgr.tasks[j] = n))]

\* only the risk branch of a run of three timed out
OnlyRiskTimedOut ==
    /\ RunEnded /\ mgr.tasks = BranchOrder
    /\ Truthy(BranchResult(1)) /\ BranchTimedOut(2) /\ Truthy(BranchResult(3))

\* C6: whichever branches fail or time out, while the others return a result,
\* the call returns an aggregated result whose agents_used lists exactly the
\* branches that returned a result; when only the risk branch times out,
\* agents_used is investment and portfolio, risk_assessment is empty and the
\* confidence score is computed from the investment and portfolio results.
C6_MissingBranches ==
    (RunEnded /\ \A j \in 1..Len(mgr.tasks) :
                    BranchFailed(j) \/ Truthy(BranchResult(j)))
    => /\ mgr.outcome.kind = "result"
       /\ mgr.outcome.value.agents_used = Answered
       /\ OnlyRiskTimedOut =>
             /\ mgr.outcome.value.agents_used = <<"investment", "portfolio">>
             /\ mgr.outcome.value.risk_assessment = EmptyDict
             /\ mgr.outcome.value.confidence_score =
                   calculate_confidence_score(
                       ResultsOf({"investment", "portfolio"}))

\* a run of three branches ended with only the risk branch timed out
C6_Witness ==
    /\ OnlyRiskTimedOut
    /\ mgr.outcome.value.agents_used = <<"investment", "portfolio">>
    /\ mgr.outcome.value.confidence_score = Ratio(15, 20)

\* C7: when every branch fails (send failure, Error reply or timeout) the
\* call returns an aggregated result with the keys ticker (the requested
\* one), timestamp, agents_used (empty), integrated_score and
\* recommendations: not an error map and not an exception.
C7_TotalFailure ==
    (RunEnded /\ \A j \in 1..Len(mgr.tasks) : BranchFailed(j))
    => /\ mgr.outcome.kind = "result"
       /\ {"ticker", "timestamp", "agents_used", "integrated_score",
           "recommendations"} \subseteq DOMAIN mgr.outcome.value
       /\ mgr.outcome.value.ticker = mgr.ticker
       /\ mgr.outcome.value.ticker = call[mgr.ids[1]].request.payload.ticker
       /\ mgr.outcome.value.agents_used = <<>>

\* a run of three branches ended: the first failed to send, the second got
\* an Error reply, the third timed out
C7_Witness ==
    /\ RunEnded /\ mgr.tasks = BranchOrder
    /\ call[mgr.ids[1]].sent = "failed"
    /\ BranchFailed(2) /\ call[mgr.ids[2]].replied
    /\ BranchTimedOut(3)
    /\ mgr.outcome.value.agents_used = <<>>

\* C8: no call of start_collaborative_analysis or handle_external_request
\* hands an exception to its caller; only initialize, called by the
\* application itself, may.
C8_NoExceptionToCaller ==
    mgr.outcome.kind = "exception" => mgr.outcome.entry = "initialize"

\* the manager has returned an aggregated result for its results dict
Aggregated ==
    /\ mgr.pc = "idle"
    /\ mgr.outcome.kind = "result"
    /\ HasKey(mgr.outcome.value, "integrated_score")

\* the score the branch name reported, none if it did not answer or its
\* payload has no score
ScoreOf(results, name) ==
    IF name \in DOMAIN results /\ HasKey(results[name], ScoreKey(name))
    THEN Some(results[name][ScoreKey(name)]) ELSE None

Max(x, y) == IF x >= y THEN x ELSE y

\* investment*0.4 + portfolio*0.3 - max(0, 100 - risk)*0.3, in tenths
ClampedScore(results) ==
    (IF IsSome(ScoreOf(results, "investment"))
     THEN TheVal(ScoreOf(results, "investment")) * 4 ELSE 0)
    + (IF IsSome(ScoreOf(results, "portfolio"))
       THEN TheVal(ScoreOf(results, "portfolio")) * 3 ELSE 0)
    - (IF IsSome(ScoreOf(results, "risk"))
       THEN Max(0, 100 - TheVal(ScoreOf(results, "risk"))) * 3 ELSE 0)

\* C14: for every combination of present branch results, risk scores above
\* 100 included, the integrated score is investment*0.4 + portfolio*0.3
\* - max(0, 100 - risk)*0.3 over the scores present.
C14_MergeRule ==
    Aggregated =>
        mgr.outcome.value.integrated_score = ClampedScore(mgr.results)

\* the first recommendation the thresholds give for a score in tenths
Bucket(score) ==
    IF score >= 700 THEN <<"STRONG_BUY", "HIGH">>
    ELSE IF score >= 500 THEN <<"BUY", "MEDIUM">>
    ELSE IF score >= 300 THEN <<"HOLD", "MEDIUM">>
    ELSE <<"SELL", "HIGH">>

\* C15: the recommendations of an aggregated result are not empty and the
\* first is fixed by the integrated score alone: at least 70 STRONG_BUY/HIGH,
\* at least 50 BUY/MEDIUM, at least 30 HOLD/MEDIUM, below 30 SELL/HIGH.
C15_Thresholds ==
    Aggregated =>
        /\ Len(mgr.outcome.value.recommendations) >= 1
        /\ <<mgr.outcome.value.recommendations[1].action,
             mgr.outcome.value.recommendations[1].confidence>>
              = Bucket(mgr.outcome.value.integrated_score)
        /\ mgr.outcome.value.recommendations[1].score
              = mgr.outcome.value.integrated_score

\* the scenario investment 80, risk 20, portfolio 60 has ended with score 26
\* and SELL/HIGH
C15_Witness ==
    /\ Aggregated
    /\ ScoreOf(mgr.results, "investment") = Some(80)
    /\ ScoreOf(mgr.results, "risk") = Some(20)
    /\ ScoreOf(mgr.results, "portfolio") = Some(60)
    /\ mgr.outcome.value.integrated_score = 260
    /\ mgr.outcome.value.recommendations[1].action = "SELL"
    /\ mgr.outcome.value.recommendations[1].confidence = "HIGH"

\* the agents of results whose confidence signal has a value: a numeric
\* confidence_score, or a text that names HIGH, MEDIUM or LOW
Reporting(results) ==
    {n \in DOMAIN results :
        \/ HasKey(results[n], "confidence_score")
        \/ /\ HasKey(results[n], "confidence")
           /\ TextConfidence(results[n]["confidence"]) # 0}

\* the mean of the signals of the reporting agents, 0.5 when there is none
MeanConfidence(results) ==
    IF Reporting(results) = {} THEN Ratio(5, 10)
    ELSE Ratio(SumSignals(results, Reporting(results)),
               10 * Cardinality(Reporting(results)))

SameRatio(p, q) == p.num * q.den = q.num * p.den

\* C16: the confidence score of an aggregated result is the mean of the
\* confidence signals of the agents that reported one (a number, or HIGH 0.8,
\* MEDIUM 0.6, LOW 0.4), and 0.5 when no agent reported one: no agent
\* answered, or the only signal is a text that is none of the three.
C16_ConfidenceMean ==
    Aggregated =>
        SameRatio(mgr.outcome.value.confidence_score,
                  MeanConfidence(mgr.results))

\* every score of the results lies in 0..100
ScoresInRange(results) ==
    \A n \in DOMAIN results :
        HasKey(results[n], ScoreKey(n)) =>
            results[n][ScoreKey(n)] \in 0..100

\* C17: with every component score in 0..100, the integrated score of an
\* aggregated result lies in 0..100 (0..1000 tenths), whichever agents
\* answered.
C17_ScoreBounded ==
    (Aggregated /\ ScoresInRange(mgr.results)) =>
        mgr.outcome.value.integrated_score \in 0..1000

\* C12: for every envelope, serialize_message gives a text and
\* deserialize_message of that text gives an envelope equal to the first in
\* every field.
C12_RoundTrip ==
    /\ proto.op = "serialized" => proto.out.ok
    /\ proto.op = "deserialized" =>
          /\ proto.back.ok
          /\ proto.back.message = proto.message

\* C13: deserialize_message of a text that is not a structurally valid
\* envelope fails with a MalformedEnvelope error and yields no envelope.
C13_MalformedEnvelope ==
    proto.op = "parsed" =>
        /\ ~proto.back.ok
        /\ proto.back.error = "MalformedEnvelope"

\* the half of C13 the code keeps: no envelope comes of an invalid text
NoEnvelopeOfInvalidText ==
    proto.op = "parsed" => ~proto.back.ok

\* the round trip is exact on the envelopes the codec can serialize
RoundTripWhenSerialized ==
    proto.op = "deserialized" =>
        proto.back.ok /\ proto.back.message = proto.message

\* handle_client of Self reads, in this step, the frame at the head of
\* connection c, and the envelope is addressed to Self
Reads(c) ==
    /\ wire[c].up # <<>>
    /\ wire'[c].up = Tail(wire[c].up)
    /\ Head(wire[c].up).body.receiver_id = AgentId(Self)

\* the frame written last on connection c, and its envelope
LastFrame(c) == wire'[c].down[Len(wire'[c].down)]
LastDown(c) == LastFrame(c).body

\* the frames connection c carries down once the step is done are those it
\* carried and one more
OneMoreDown(c) ==
    /\ Len(wire'[c].down) = Len(wire[c].down) + 1
    /\ wire' = [wire EXCEPT ![c].down = Append(@, LastFrame(c)),
                            ![c].up = wire'[c].up]

\* no frame was written in the step that read the head of c
NoneWritten(c) == wire' = [wire EXCEPT ![c].up = Tail(@)]

\* C11: when the handler the router selected for message m raises, the
\* router sends one Error envelope with correlation id m.message_id and
\* receiver m.sender_id and nothing else, the exception goes no further
\* (the connection stays served and no table changes), and every frame that
\* is then at the head of a served connection can be dispatched.
C11_HandlerFailure ==
    /\ [][\A p \in Peers :
            LET c == Connection(p, Self)
                s == websocket[Self]
            IN (Reads(c) /\ HandlerRaises(Self, Head(wire[c].up).body)) =>
                 /\ conns' = conns /\ listening' = listening
                 /\ websocket' = websocket
                 /\ pending_requests' = pending_requests
                 /\ registered_agents' = registered_agents
                 /\ \/ NoneWritten(c)
                    \/ /\ SocketOpen(Self)
                       /\ IF s = c
                          THEN OneMoreDown(c)
                          ELSE /\ wire'[c].down = wire[c].down
                               /\ Len(wire'[s].down) = Len(wire[s].down) + 1
                               /\ wire' = [wire EXCEPT
                                    ![c].up = Tail(@),
                                    ![s].down = Append(@, LastFrame(s))]
                       /\ LastDown(s).message_type = ERROR
                       /\ LastDown(s).correlation_id
                             = Head(wire[c].up).body.message_id
                       /\ LastDown(s).receiver_id
                             = Head(wire[c].up).body.sender_id
                       /\ LastDown(s).sender_id = AgentId(Self)]_vars
    /\ [](\A p \in Peers :
            (/\ Self \in listening
             /\ Connection(p, Self) \in conns
             /\ wire[Connection(p, Self)].up # <<>>)
            => ENABLED ListenFrame(Self, Connection(p, Self)))

\* a query whose handler raised was answered with an Error, and a Request
\* that came after it on the same connection was dispatched and answered
C11_Witness ==
    \E p \in Peers :
        LET down == wire[Connection(p, Self)].down
        IN /\ Len(down) = 2
           /\ down[1].body.message_type = ERROR
           /\ down[1].body.payload.error_code = "HANDLER_ERROR"
           /\ down[1].body.correlation_id = PeerMessageId(p, CAPABILITY_QUERY)
           /\ down[1].body.receiver_id = p
           /\ down[2].body.message_type = RESPONSE
           /\ down[2].body.correlation_id = PeerMessageId(p, REQUEST)

\* C19: an adapter with registered capabilities that dispatches a
\* CapabilityQuery q sends one Response whose payload is its Capability
\* Descriptor and whose correlation id is q.message_id; with no
\* capabilities registered it sends nothing.
C19_CapabilityReply ==
    [][\A p \in Peers :
         LET c == Connection(p, Self)
             s == websocket[Self]
         IN (Reads(c)
             /\ Head(wire[c].up).body.message_type = CAPABILITY_QUERY) =>
              IF capabilities[Self] = None
              THEN NoneWritten(c)
              ELSE \/ NoneWritten(c)
                   \/ /\ SocketOpen(Self)
                      /\ Len(wire'[s].down) = Len(wire[s].down) + 1
                      /\ LastDown(s).message_type = RESPONSE
                      /\ LastDown(s).payload = Descriptor(Self)
                      /\ LastDown(s).correlation_id
                            = Head(wire[c].up).body.message_id]_vars

\* C20: a listener serves at most one peer connection at any time, and
\* the connection the adapter sends on is the one it serves.
C20_OnePeer ==
    \A a \in Adapters :
        /\ Cardinality({c \in conns : c.server = a}) <= 1
        /\ \A c \in conns : c.server = a => websocket[a] = c

\* the Registration envelope connect_to_registry makes for adapter a
IsRegistrationOf(message, a) ==
    /\ message.message_type = REGISTRATION
    /\ message.sender_id = AgentId(a)
    /\ message.receiver_id = "registry"
    /\ message.payload = Descriptor(a)

C18_FailedFast ==
    reg.pc = "done" /\ reg.outcome = "ValueError"

\* the Registration envelope reaches the connection it is sent on
RegistrationWritten ==
    (reg.pc = "done" /\ reg.outcome = "returned" /\ reg.connected) =>
        wire[Connection(reg.adapter, reg.endpoint)].up # <<>>


\* handle_client of Self reads, in this step, the frame at the head of
\* connection c
Yields(c) ==
    /\ wire[c].up # <<>>
    /\ wire'[c].up = Tail(wire[c].up)

\* what the step shows of the handler for envelope m having run on Self: a
\* correlated reply is stored in the pending record, a Registration of
\* another sender is stored in the peer table, an accepted Request is
\* answered with a new envelope
Dispatched(m) ==
    LET cid == m.correlation_id
        table == pending_requests[Self]
    IN /\ (m.message_type = RESPONSE /\ cid \in DOMAIN table) =>
             pending_requests'[Self][cid].response = Some(m.payload)
       /\ (m.message_type = ERROR /\ cid \in DOMAIN table) =>
             pending_requests'[Self][cid].error = Some(m.payload)
       /\ (m.message_type = REGISTRATION /\ m.sender_id # AgentId(Self)) =>
             /\ m.sender_id \in DOMAIN registered_agents'[Self]
             /\ registered_agents'[Self][m.sender_id] = m.payload
       /\ (m.message_type = REQUEST /\ Accepts(Self, m.payload)) =>
             nextId' = nextId + 1

\* C21: for every frame a listener reads, the message handler runs if and
\* only if the envelope's receiver_id is the listening adapter's agent id;
\* a frame addressed to any other receiver changes neither the pending
\* table nor the registered-peer table and no reply is made or written.
C21_ReceiverFilter ==
    [][\A p \in Peers :
         LET c == Connection(p, Self)
             m == Head(wire[c].up).body
         IN Yields(c) =>
              IF m.receiver_id = AgentId(Self)
              THEN Dispatched(m)
              ELSE /\ pending_requests' = pending_requests
                   /\ registered_agents' = registered_agents
                   /\ call' = call
                   /\ nextId' = nextId
                   /\ NoneWritten(c)]_vars

\* a Response correlated to the outstanding request, but addressed to
\* another agent, is at the head of a connection of an adapter that has
\* dispatched a Registration
C21_Witness ==
    \E p \in Peers :
        LET up == wire[Connection(p, Self)].up
        IN /\ up # <<>>
           /\ Head(up).body.message_type = RESPONSE
           /\ Head(up).body.receiver_id = "external_agent"
           /\ Head(up).body.correlation_id \in DOMAIN pending_requests[Self]
           /\ pending_requests[Self][1].response = None
           /\ registered_agents[Self] # EmptyTable
           /\ Connection(p, Self) \in conns


Constructs == proto.op \in TypedConstructors \cup {"create_message"}

\* C27: every envelope of kind Request the protocol factory produces carries
\* no correlation id: the typed-request constructors yield kind Request,
\* priority High and no correlation id, and create_message yields no
\* Request with a correlation id, whatever its arguments.
C27_RequestUncorrelated ==
    Constructs =>
        /\ proto.op \in TypedConstructors =>
              /\ proto.made.message_type = REQUEST
              /\ proto.made.priority = HIGH
        /\ proto.made.message_type = REQUEST =>
              proto.made.correlation_id = NoId

\* the part of C27 about the typed-request constructors
TypedRequestsUncorrelated ==
    proto.op \in TypedConstructors =>
        /\ proto.made.message_type = REQUEST
        /\ proto.made.priority = HIGH
        /\ proto.made.correlation_id = NoId

\* create_message hands its correlation_id argument on as it is
CorrelationPassedOn ==
    proto.op = "create_message" =>
        proto.made.correlation_id = proto.correlation_id


\* the text is that of envelope m, but for the priority written as the
\* string tag "high"
HighTagged(text, m) ==
    text = [kind |-> "json",
            doc |-> JObj(With(DocOf(m), "priority", JStr("high")))]

\* C28: the serialized form of every envelope holds the kind and the
\* priority as string tags, never as numbers, and the creation and expiry
\* instants as ISO-8601 strings; and a text whose priority is the tag "high"
\* deserializes to an envelope of priority High.
C28_StringTags ==
    /\ (proto.op = "serialized" /\ proto.out.ok) =>
          LET members == proto.out.text.doc.members
          IN /\ members.message_type.json = "string"
             /\ members.priority.json = "string"
             /\ IsIso(members.timestamp)
             /\ members.expires_at = JNull \/ IsIso(members.expires_at)
    /\ \A m \in BaseEnvelopes :
          (proto.op = "parsed" /\ HighTagged(proto.text, m)) =>
              /\ proto.back.ok
              /\ proto.back.message.priority = HIGH

\* what the code keeps of C28: the kind is written as its string tag and the
\* instants as ISO-8601 strings, and the priority as its number
KindTaggedPriorityNumbered ==
    (proto.op = "serialized" /\ proto.out.ok) =>
        LET members == proto.out.text.doc.members
        IN /\ members.message_type = JStr(proto.message.message_type)
           /\ members.priority = JNum(proto.message.priority)
           /\ members.timestamp = isoformat(proto.message.timestamp)
           /\ members.expires_at = JNull \/ IsIso(members.expires_at)

\* a text with the priority tag "high" is refused with ValueError
HighTagRefused ==
    \A m \in BaseEnvelopes :
        (proto.op = "parsed" /\ HighTagged(proto.text, m)) =>
            ~proto.back.ok /\ proto.back.error = "ValueError"


\* the risk level of the risk result, none when there is no risk result or
\* it names no level
RiskLevelOf(results) ==
    IF "risk" \in DOMAIN results /\ HasKey(results["risk"], "risk_level")
    THEN Some(results["risk"]["risk_level"])
    ELSE None

\* the positions of the REDUCE_POSITION entries among the recommendations
ReducePositions(recommendations) ==
    {i \in DOMAIN recommendations :
        recommendations[i].action = "REDUCE_POSITION"}

\* C30: when the risk result's risk level is HIGH or CRITICAL, in upper or
\* in lower case, the aggregated recommendations hold one REDUCE_POSITION
\* entry, right after the score-based entry; for every other risk level, and
\* when there is no risk result, they hold none.
C30_ReducePosition ==
    Aggregated =>
        LET level == RiskLevelOf(mgr.results)
            recommendations == mgr.outcome.value.recommendations
        IN IF IsSome(level)
              /\ TheVal(level) \in {"HIGH", "CRITICAL", "high", "critical"}
           THEN ReducePositions(recommendations) = {2}
           ELSE ReducePositions(recommendations) = {}

\* what the code keeps of C30: the entry is added for the lower-case levels
\* "high" and "critical", and for nothing else
ReducePositionLowerCase ==
    Aggregated =>
        LET level == RiskLevelOf(mgr.results)
            recommendations == mgr.outcome.value.recommendations
        IN IF IsSome(level) /\ TheVal(level) \in {"high", "critical"}
           THEN /\ ReducePositions(recommendations) = {2}
                /\ recommendations[2].confidence = "HIGH"
           ELSE ReducePositions(recommendations) = {}


\* the frames on the wire that carry the request of call i
RequestFrames(i) ==
    UNION {{<<c, d, k>> : k \in {n \in 1..Len(wire[c][d]) :
                                  wire[c][d][n].body = call[i].request}} :
           c \in AllConns, d \in {"up", "down"}}

\* every request_* call makes at most one transport send
AtMostOneSend ==
    \A i \in Calls : Cardinality(RequestFrames(i)) <= 1

\* the wait of call i ends in this step, and an Error correlated to i was
\* dispatched while the call waited
EndsAfterError(i) ==
    /\ i \in Calls /\ call[i].pc = "sleep"
    /\ i \in DOMAIN pending_requests[call[i].adapter]
    /\ IsSome(pending_requests[call[i].adapter][i].error)
    /\ call'[i].pc = "done"

\* C29: when an Error correlated to an outstanding request is dispatched,
\* the waiting request_* call returns none and the pending record is
\* removed; the request is not sent again: every request_* call makes at
\* most one transport send, whatever its outcome.
C29_ErrorEndsCall ==
    /\ []AtMostOneSend
    /\ [][\A i \in 1..MaxCalls :
            EndsAfterError(i) =>
                /\ call'[i].result = None
                /\ i \notin DOMAIN pending_requests'[call[i].adapter]
                /\ wire' = wire]_vars

\* what the code keeps of C29: a wait that finds an Error and no Response in
\* the record returns none, and a wait that ends removes the record and
\* sends nothing
ErrorAloneEndsCall ==
    [][\A i \in 1..MaxCalls :
         EndsAfterError(i) =>
             /\ pending_requests[call[i].adapter][i].response = None
                   => call'[i].result = None
             /\ i \notin DOMAIN pending_requests'[call[i].adapter]
             /\ wire' = wire]_vars


\* C23: initialize is idempotent: a call of initialize on an initialized
\* manager returns at once, starts no listener, makes no adapter, and leaves
\* the name-to-adapter map, the tables, capabilities and websocket of every
\* adapter and the initialized flag as they were.
C23_InitializeIdempotent ==
    [][(mgr.initialized /\ mgr.pc = "idle" /\ mgr'.calls = mgr.calls + 1) =>
          /\ mgr'.pc = "idle"
          /\ mgr'.outcome = [kind |-> "result", entry |-> "initialize",
                             value |-> EmptyDict]
          /\ mgr'.initialized
          /\ mgr'.adapters = mgr.adapters
          /\ listening' = listening
          /\ pending_requests' = pending_requests
          /\ registered_agents' = registered_agents
          /\ capabilities' = capabilities
          /\ websocket' = websocket
          /\ conns' = conns /\ wire' = wire /\ call' = call]_vars

\* initialize was called a second time, with no shutdown before it, on a
\* manager whose investment adapter serves a connection and holds a pending
\* record
C23_Witness ==
    /\ mgr.initialized /\ ~mgr.shut
    /\ mgr.calls >= 2
    /\ mgr.pc = "idle"
    /\ listening = Adapters
    /\ SocketOpen("investment")
    /\ pending_requests["investment"] # EmptyTable

\* C24: the manager can be cycled: after initialize, shutdown and initialize
\* on one manager, the second initialize has started the three listeners
\* and returned, initialized is true and get_agent_status reports at least
\* three adapters.
C24_Cycle ==
    (mgr.cycled /\ mgr.pc = "idle" /\ mgr.outcome.entry = "initialize") =>
        /\ mgr.outcome.kind = "result"
        /\ listening = Adapters
        /\ get_agent_status.initialized
        /\ Cardinality(get_agent_status.adapters) >= 3

\* what the code does in the case of C24: the listeners of the first
\* initialize hold the ports, start_server raises for the first adapter, and
\* initialize hands the exception on with initialized false
SecondInitializeRaises ==
    (mgr.cycled /\ mgr.pc = "idle" /\ mgr.outcome.entry = "initialize") =>
        /\ mgr.outcome.kind = "exception"
        /\ ~get_agent_status.initialized
        /\ get_agent_status.adapters = Adapters


\* handle_external_request has returned, and r is the request it answered
\* without a collaborative analysis
AnsweredDirectly(r) ==
    /\ mgr.pc = "idle" /\ mgr.outcome.entry = "external"
    /\ mgr.request = r /\ r # NoRequest

\* the requests C25 says are refused
Refused(r) ==
    \/ r.type \notin {"stock_analysis", "portfolio_analysis"}
    \/ r.type = "stock_analysis" /\ r.ticker = ""
    \/ r.type = "portfolio_analysis" /\ r.user_id = None

\* C25: handle_external_request returns an error map, without raising and
\* without starting any analysis, for a request whose type is neither
\* stock_analysis nor portfolio_analysis, for a stock_analysis request with
\* no ticker and for a portfolio_analysis request with no user_id; for a
\* stock_analysis request with a ticker it returns what the collaborative
\* analysis returned.
C25_ExternalRequest ==
    /\ [](\A r \in ExternalRequests :
            (AnsweredDirectly(r) /\ Refused(r)) =>
                /\ mgr.outcome.kind = "error"
                /\ HasKey(mgr.outcome.value, "error"))
    /\ []((mgr.pc = "idle" /\ mgr.outcome.entry = "external"
           /\ mgr.request = NoRequest) =>
             /\ mgr.outcome.kind # "exception"
             /\ mgr.outcome.kind = "result" =>
                   /\ mgr.outcome.value.ticker = mgr.ticker
                   /\ mgr.outcome.value.agents_used = KeysOf(mgr.results))
    /\ [][(mgr.pc = "idle" /\ mgr'.request # NoRequest /\ mgr' # mgr) =>
             /\ mgr'.pc = "idle"
             /\ call' = call /\ nextId' = nextId
             /\ pending_requests' = pending_requests]_vars

\* what the code keeps of C25: all of it but the refusal of a
\* portfolio_analysis request without user_id, which is analysed for the
\* user "external_user"; a request is refused for its user_id only when
\* that is given and empty
ExternalDefaultUser ==
    \A r \in ExternalRequests :
        AnsweredDirectly(r) =>
            /\ (Refused(r) /\ r.type # "portfolio_analysis")
                  => mgr.outcome.kind = "error"
            /\ (r.type = "portfolio_analysis" /\ r.user_id = Some(""))
                  => mgr.outcome.kind = "error"
            /\ (r.type = "portfolio_analysis" /\ r.user_id = None
                /\ mgr.outcome.kind = "result")
                  => mgr.outcome.value.user_id = "external_user"


\* a frame of connection c is read by handle_client in this step
Consumes(c) == Len(wire'[c].up) < Len(wire[c].up)

PerConnectionOrder ==
    [][\A p \in Peers :
         LET c == Connection(p, Self)
         IN Consumes(c) =>
              /\ wire'[c].up = Tail(wire[c].up)
              /\ handling[c] = None]_vars

\* a frame of higher priority waits behind an older frame of lower priority
\* on a connection whose handler is suspended
UrgentWaits ==
    \E p \in Peers :
        LET up == wire[Connection(p, Self)].up
        IN /\ IsSome(handling[Connection(p, Self)])
           /\ up # <<>>
           /\ Head(up).body.priority
                 > TheVal(handling[Connection(p, Self)]).priority


\* C31: stream framing round-trips and the prefix is informational only: the
\* frame send_message writes for an envelope, one whose sender_id holds a ':'
\* included, is parsed by the listener back into the envelope, and what the
\* listener makes of a frame does not depend on the prefix it carries.
C31_Framing ==
    /\ proto.op = "read" =>
          /\ proto.back.ok
          /\ proto.back.message = proto.message
    /\ proto.op = "read_prefixed" =>
          proto.back = [ok |-> TRUE, message |-> proto.message,
                        dispatched |->
                           proto.message.receiver_id = AgentId(Self)]

\* the frame of a sender whose id holds no colon is parsed back into the
\* envelope
ColonFreeRoundTrip ==
    (proto.op = "read" /\ Colon \notin {proto.text[i] : i \in 1..2}) =>
        proto.back.ok /\ proto.back.message = proto.message

\* the prefix is informational: whatever stands before the first colon, the
\* listener gets the envelope of the JSON text and dispatches it by its
\* receiver_id alone
PrefixInformational ==
    proto.op = "read_prefixed" =>
        proto.back = [ok |-> TRUE, message |-> proto.message,
                      dispatched |->
                         proto.message.receiver_id = AgentId(Self)]

\* the frame of a sender whose id holds a colon is dropped by the listener
ColonSenderDropped ==
    (proto.op = "read" /\ proto.message.sender_id = "team:agent") =>
        proto.back = Failed("JSONDecodeError")


\* the branches of the run whose request was resolved by a Response, in order
ResolvedByResponse ==
    SelectSeq(mgr.tasks,
              LAMBDA n : \E j \in 1..Len(mgr.tasks) :
                            mgr.tasks[j] = n /\ IsSome(BranchResult(j)))

\* C32: agents_used contains exactly the branches whose request was resolved
\* by a Response, one with an empty payload map included; only the branches
\* that timed out, got an Error or failed to send are omitted.
C32_AgentsUsed ==
    RunEnded =>
        /\ mgr.outcome.kind = "result"
        /\ mgr.outcome.value.agents_used = ResolvedByResponse

\* what the code keeps of C32: agents_used lists the branches that were
\* resolved by a Response whose payload is not empty
AgentsUsedNonEmpty ==
    RunEnded =>
        /\ mgr.outcome.kind = "result"
        /\ mgr.outcome.value.agents_used = Answered

\* a branch resolved by a Response with an empty payload is left out of
\* agents_used
EmptyAnswerOmitted ==
    RunEnded =>
        \A j \in 1..Len(mgr.tasks) :
            BranchResult(j) = Some(EmptyDict) =>
                \A k \in 1..Len(mgr.outcome.value.agents_used) :
                    mgr.outcome.value.agents_used[k] # mgr.tasks[j]


\* C33: whenever a request_* call returns, in every outcome (response, error,
\* timeout or send failure), the pending table of the adapter holds no record
\* under the id of the call's request; hence with no call in progress the
\* pending table is empty.
C33_NoRecordAfterReturn ==
    /\ \A i \in Calls :
          call[i].pc = "done" =>
              i \notin DOMAIN pending_requests[call[i].adapter]
    /\ (\A i \in Calls : call[i].pc = "done") =>
          \A a \in Adapters : pending_requests[a] = EmptyTable

\* what the code keeps of C33: a call that returned from _wait_for_response,
\* with a response, an error or a timeout, left no record
NoRecordAfterWait ==
    \A i \in Calls :
        (call[i].pc = "done" /\ call[i].sent = "ok") =>
            i \notin DOMAIN pending_requests[call[i].adapter]

\* a call whose send failed returned with its record still in the table
RecordLeftBySendFailure ==
    \A i \in Calls :
        call[i].sent = "failed" =>
            /\ call[i].pc = "done"
            /\ i \in DOMAIN pending_requests[call[i].adapter]


\* the adapter still holds the pending record of the request of branch j
RecordHeld(j) ==
    mgr.ids[j] \in DOMAIN pending_requests[call[mgr.ids[j]].adapter]

\* C34: when a branch of start_collaborative_analysis gets no reply, its
\* pending record is removed by the time the call returns, whichever of the
\* two 30-second timers fires first: the manager's wait_for, which cancels
\* the adapter call, or the deadline of _wait_for_response.
C34_TimersCleanUp ==
    RunEnded =>
        \A j \in 1..Len(mgr.tasks) : BranchTimedOut(j) => ~RecordHeld(j)

\* what the code keeps of C34: a branch that ran into the deadline of
\* _wait_for_response left no record
InnerDeadlineCleansUp ==
    \A j \in 1..Len(mgr.ids) :
        (BranchTimedOut(j) /\ call[mgr.ids[j]].pc = "done") => ~RecordHeld(j)

\* a branch cancelled by wait_for left its record in the table
CancelledLeavesRecord ==
    \A j \in 1..Len(mgr.ids) :
        call[mgr.ids[j]].pc = "cancelled" => RecordHeld(j)


\* handle_client of Self reads, in this step, a Request addressed to Self
\* from the head of connection c
YieldsRequest(c) ==
    /\ Yields(c)
    /\ Head(wire[c].up).body.receiver_id = AgentId(Self)
    /\ Head(wire[c].up).body.message_type = REQUEST

\* the adapter wrote no frame on connection c in this step
DownSame(c) == wire'[c].down = wire[c].down

\* C35: with two peers connected to the listener of one adapter, in any
\* interleaving of connects and messages, the Response or Error the adapter
\* produces for a Request received from one peer is sent on that peer's
\* connection and never on the other's.
C35_ReplyToRequester ==
    [][\A p \in Peers :
         YieldsRequest(Connection(p, Self)) =>
            \A q \in Peers \ {p} : DownSame(Connection(q, Self))]_vars

\* where the reply does go: every frame the adapter writes is written on the
\* connection transport.websocket names, the one accepted last
ReplyOnLastAccepted ==
    [][\A p \in Peers :
         ~DownSame(Connection(p, Self)) =>
            websocket[Self] = Connection(p, Self)]_vars

\* a Request of the peer that connected first is at the head of its
\* connection while transport.websocket names the other peer's connection
RequestOfFirstPeer ==
    \E p \in Peers :
        LET c == Connection(p, Self)
        IN /\ c \in conns /\ wire[c].up # <<>>
           /\ Head(wire[c].up).body.receiver_id = AgentId(Self)
           /\ Head(wire[c].up).body.message_type = REQUEST
           /\ Accepts(Self, Head(wire[c].up).body.payload)
           /\ websocket[Self] \in conns /\ websocket[Self] # c


\* handle_client of adapter a reads, in this step, a Request addressed to a
\* from the head of the peer's connection
RequestRead(a) ==
    LET c == Connection(Peer, a)
    IN /\ Yields(c)
       /\ Head(wire[c].up).body.receiver_id = AgentId(a)
       /\ Head(wire[c].up).body.message_type = REQUEST

\* the handler made one reply envelope and handed it to send_message; the
\* frame, when send_message wrote it, answers the Request read from c
OneReply(a) ==
    LET c == Connection(Peer, a)
        m == Head(wire[c].up).body
    IN /\ nextId' = nextId + 1
       /\ Len(wire'[c].down) <= Len(wire[c].down) + 1
       /\ Len(wire'[c].down) = Len(wire[c].down) + 1 =>
             /\ LastDown(c).message_type \in {RESPONSE, ERROR}
             /\ LastDown(c).correlation_id = m.message_id
             /\ LastDown(c).receiver_id = m.sender_id

\* C36: for every Request dispatched to a specialised adapter, whatever the
\* fields of its payload, the adapter makes exactly one reply send attempt, a
\* Response when the domain collaborator succeeds and an Error otherwise; no
\* dispatched Request is left without a reply.
C36_OneReplyPerRequest ==
    [][\A a \in Adapters : RequestRead(a) => OneReply(a)]_vars

\* what the code keeps of C36: a Request whose payload holds the keys the
\* handler tests for gets exactly one reply
OneReplyWhenAccepted ==
    [][\A a \in Adapters :
         (RequestRead(a)
          /\ Accepts(a, Head(wire[Connection(Peer, a)].up).body.payload))
         => OneReply(a)]_vars

\* a Request whose payload lacks a key the handler tests for is dropped: no
\* reply envelope is made and nothing is written
UnacceptedRequestDropped ==
    [][\A a \in Adapters :
         (RequestRead(a)
          /\ ~Accepts(a, Head(wire[Connection(Peer, a)].up).body.payload))
         => /\ nextId' = nextId
            /\ DownSame(Connection(Peer, a))]_vars


\* handle_client of Self reads, in this step, a Response or an Error
\* addressed to Self from the head of connection c
YieldsReply(c) ==
    /\ Yields(c)
    /\ Head(wire[c].up).body.receiver_id = AgentId(Self)
    /\ Head(wire[c].up).body.message_type \in {RESPONSE, ERROR}

\* C37: dispatching a Response or an Error never creates a pending record: if
\* its correlation id is absent, unknown, or belongs to a request whose
\* record was already consumed, timed out or swept, the pending table is left
\* unchanged; the key set of the pending table grows only through request_*
\* calls.
C37_RepliesCreateNoRecord ==
    [][/\ LET c == Connection(Peer, Self)
              cid == Head(wire[c].up).body.correlation_id
          IN YieldsReply(c) =>
                /\ DOMAIN pending_requests'[Self] = DOMAIN pending_requests[Self]
                /\ cid \notin DOMAIN pending_requests[Self] =>
                      pending_requests' = pending_requests
       /\ \A a \in Adapters :
             LET added == DOMAIN pending_requests'[a] \ DOMAIN pending_requests[a]
             IN added # {} =>
                   /\ added = {nextId} /\ nextId' = nextId + 1
                   /\ nextId \notin Calls
                   /\ call'[nextId].adapter = a
                   /\ call'[nextId].pc = "send"]_vars

\* a Response correlated to a request whose send failed and whose record was
\* swept is at the head of the connection
C37_Witness ==
    LET up == wire[Connection(Peer, Self)].up
    IN /\ up # <<>>
       /\ Head(up).body.message_type = RESPONSE
       /\ Head(up).body.receiver_id = AgentId(Self)
       /\ Head(up).body.correlation_id \in Calls
       /\ call[Head(up).body.correlation_id].sent = "failed"
       /\ pending_requests[Self] = EmptyTable
       /\ Connection(Peer, Self) \in conns


\* the record of request i is in the table before and after the step
RecordStays(i) ==
    /\ i \in DOMAIN pending_requests[Self]
    /\ i \in DOMAIN pending_requests'[Self]

\* C38: replies never cross between requests: for any two outstanding
\* requests on one adapter and any interleaving of their replies and poll
\* steps, the waiter for a request returns only a payload that arrived in a
\* Response whose correlation id is that request's id, and a reply for the
\* other request never resolves, alters or removes its record.
C38_RepliesDoNotCross ==
    [][\A i \in Calls :
         LET c == Connection(Peer, Self)
             m == Head(wire[c].up).body
         IN /\ (YieldsReply(c) /\ m.correlation_id # i) =>
                  /\ call'[i] = call[i]
                  /\ i \in DOMAIN pending_requests'[Self]
                        <=> i \in DOMAIN pending_requests[Self]
                  /\ RecordStays(i) =>
                        pending_requests'[Self][i] = pending_requests[Self][i]
            /\ (/\ RecordStays(i)
                /\ pending_requests'[Self][i].response
                      # pending_requests[Self][i].response) =>
                  /\ YieldsReply(c)
                  /\ m.message_type = RESPONSE
                  /\ m.correlation_id = i
                  /\ pending_requests'[Self][i].response = Some(m.payload)
            /\ (/\ call[i].pc # "done" /\ call'[i].pc = "done"
                /\ IsSome(call'[i].result)) =>
                  /\ i \in DOMAIN pending_requests[Self]
                  /\ call'[i].result = pending_requests[Self][i].response]_vars

\* of two requests that were outstanding together, the second was answered
\* and its waiter returned the payload, while the first is still waited on
\* with its record unresolved
C38_Witness ==
    /\ {1, 2} \subseteq Calls
    /\ call[2].pc = "done" /\ call[2].result = Some([overall_score |-> 80])
    /\ call[1].pc = "sleep"
    /\ 1 \in DOMAIN pending_requests[Self]
    /\ pending_requests[Self][1].response = None
    /\ pending_requests[Self][1].error = None


\* connect_to_registry of adapter a on the endpoint of adapter b has
\* returned, the connection was made and the Registration was written on it
RegistrationSent(a, b) ==
    /\ reg.pc = "done" /\ reg.adapter = a /\ reg.endpoint = b
    /\ reg.connected
    /\ wire[Connection(a, b)].up # <<>>

\* the Registered Peer Table of adapter b holds the descriptor of adapter a
\* under a's id
Enrolled(a, b) ==
    /\ AgentId(a) \in DOMAIN registered_agents[b]
    /\ registered_agents[b][AgentId(a)] = TheVal(capabilities[a])

\* C39: if adapter A, with capabilities registered, calls connect_to_registry
\* on the endpoint of adapter B's listener and the connection and the send
\* succeed, then B's Registered Peer Table eventually contains an entry under
\* A's id that holds A's capability payload.
C39_RegistrationReaches ==
    \A a \in Adapters, b \in Adapters :
        RegistrationSent(a, b) ~> Enrolled(a, b)

\* what the code does: the Registration is addressed to "registry", no
\* listening adapter has that id, and no Registered Peer Table gets an entry
NoneEnrolled ==
    \A b \in Adapters : registered_agents[b] = EmptyTable

\* the Registration written is addressed to "registry"
AddressedToRegistry ==
    \A c \in AllConns :
        \A k \in 1..Len(wire[c].up) :
            wire[c].up[k].body.receiver_id = "registry"

\* with the role a member of AgentRole nothing is written at all
EnumRoleNotWritten ==
    \A a \in Adapters :
        (reg.pc = "done" /\ reg.adapter = a
         /\ capabilities[a] = Some(Descriptor(a))) =>
            \A c \in AllConns : wire[c].up = <<>>

====
